---- MODULE Spec2Model ----
(***************************************************************************)
(* A model of the LIFX LAN protocol engine of package lifx: the message    *)
(* codec (encodeMessage, decodeMessage), the retrying request/response     *)
(* exchange (Device.oneRPC, Device.retry, retryableErr, udpConn,           *)
(* readOnePacket, Device.query, Device.set) and Client.Close of msg.go,    *)
(* Discover of discovery.go, DetermineProduct with                         *)
(* ProductCapabilities.merge of the products file, and the calls that      *)
(* build or parse a payload: uint32Millis, SetExtendedColorZones,          *)
(* GetExtendedColorZones, SetWaveform of color.go and SetLightPower of     *)
(* info.go.                                                                *)
(*                                                                         *)
(* Bytes are integers 0..255 and a byte slice is a sequence of them.       *)
(* Time is counted in clock units of 125ns, the coarsest unit in which     *)
(* every timeout the retry loop computes is a whole number.                *)
(***************************************************************************)
EXTENDS Integers, Sequences, FiniteSets, TLC

VARIABLES
    \* ---- codec harness: one encode, optional damage, one decode
    cpc,        \* "init" | "encoded" | "decoded"
    encIn,      \* [hdr, payload]: the arguments given to encodeMessage
    buf,        \* the byte buffer that is handed to decodeMessage
    damaged,    \* whether buf was changed after encodeMessage produced it
    dec,        \* [hdr, payload, err]: what decodeMessage returned
    \* ---- Client and Device
    clientSource, \* d.client.source
    dSeq,         \* d.seq (uint8)
    \* ---- the caller's context
    ctxDeadline,  \* ctx.Deadline(), or NoDeadline
    ctxErr,       \* ctx.Err(): "nil" | "Canceled" | "DeadlineExceeded"
    ctxDoneAt,    \* the instant ctx was cancelled or its deadline was due
    now,          \* the clock, counted from the call of oneRPC
    \* ---- oneRPC and retry
    pc,           \* "idle" | "attempt" | "waiting" | "done"
    req,          \* oneRPC's arguments
    seq,          \* oneRPC's local seq
    msg,          \* oneRPC's local msg, the encoded request
    timeout,      \* retry's local timeout
    readDeadline, \* the read deadline udpConn set on the attempt's socket
    respHdr,      \* oneRPC's local respHdr
    respBody,     \* oneRPC's local respBody
    result,       \* [payload, err]: what oneRPC returned
    \* ---- observations of the exchange in progress
    seq0,         \* d.seq when the Device was handed to the caller
    calls,        \* number of oneRPC calls made on the Device
    attempts,     \* number of attempts retry has started
    prevTimeout,  \* timeout of the previous attempt, 0 on the first
    sent,         \* the distinct datagrams written to the network
    nSent,        \* number of datagrams written to the network
    rcvd,         \* the datagrams read from the network, in order
    lastErr,      \* the error the latest attempt ended with
    conns,        \* the open sockets of the exchange: [port, by] with the
                  \* local port and the number of the attempt that opened it
    ports,        \* [prev, cur]: the local ports of the sockets the previous
                  \* and the latest attempt opened; 0 when there was none
    lateRead,     \* [of, by]: the attempt whose late answer was read, and
                  \* the attempt that read it; zeros when none was
    \* ---- the Client's own socket
    clientConnOpen, \* whether c.conn is open: true until Close
    startedClosed,  \* whether the exchange in progress began after Close
    entryErr,       \* ctx.Err() at the moment oneRPC was called
    portPool,       \* the local ports the system hands to new sockets
    \* ---- Discover
    dpc,            \* "idle" | "receiving" | "done"
    probe,          \* Discover's local msg, the datagram it broadcasts
    dReadDeadline,  \* the read deadline udpConn set on Discover's socket
    devs,           \* Discover's local devs
    dErr,           \* the error that ended Discover's work, "nil" before
    dRet,           \* [devs, err]: what Discover returned
    lastFrom,       \* [b, raddr]: the datagram ReadFrom returned last
    added,          \* whether that datagram made Discover append a Device
    dConns,         \* Discover's open sockets: [port, by] with by = 0
    \* ---- two Device handles and two callers
    locking,        \* whether the callers serialize their exchanges on a handle
    hDev,           \* handle -> Device: Addr, Serial and the counter seq
    callers,        \* caller -> [h, pc, seq, tmp, msg, idx, prev]
    hCalls,         \* handle -> number of exchanges begun on it
    lastUse,        \* handle -> sequence number -> the exchange that took it last
    \* ---- DetermineProduct
    ppc,            \* "init" | "called" | "panicked" | "changed" | "again"
    heap,           \* the memory behind pointers and slices: address -> value
    heap0,          \* heap as it was when the catalog had been decoded
    file,           \* the catalog, []VendorProducts
    pArgs,          \* [vendorID, productID, firmwareVersion]
    pRet,           \* what DetermineProduct returned
    pFirst,         \* the Features of the first call's Product, as values
    \* ---- the calls that build a payload or parse one
    zCall,          \* [n, op, duration, zones, level, cfg]: the call made last
    zRet,           \* [zones, err]: what it returned, err "pending" until then
    \* ---- CaptureState and RestoreState
    spc,            \* where CaptureState or RestoreState stands
    state,          \* the State: [power, zones]
    sErr,           \* the error CaptureState or RestoreState returned last
    restoreLog      \* RestoreState's exchanges so far: [req, err] of each

codecVars == <<cpc, encIn, buf, damaged, dec>>

ctxVars == <<ctxDeadline, ctxErr, ctxDoneAt, now>>

rpcVars ==
    <<clientSource, dSeq, pc, req, seq, msg, timeout, readDeadline, respHdr,
      respBody, result, seq0, calls, attempts, prevTimeout, sent, nSent, rcvd,
      lastErr, conns, ports, lateRead>>

sessionVars == <<clientConnOpen, startedClosed, entryErr, portPool>>

\* The variables of the harnesses that the exchange never touches.
discVars == <<dpc, probe, dReadDeadline, devs, dErr, dRet, lastFrom, added, dConns>>

handleVars == <<locking, hDev, callers, hCalls, lastUse>>

prodVars == <<ppc, heap, heap0, file, pArgs, pRet, pFirst>>

zoneVars == <<zCall, zRet>>

\* The variables of the harnesses that no call on a Device touches.
awayVars == <<codecVars, discVars, handleVars, prodVars>>

stateVars == <<spc, state, sErr, restoreLog>>

farVars == <<awayVars, zoneVars, stateVars>>

\* The variables that the codec harness never touches.
outsideCodec ==
    <<ctxVars, rpcVars, sessionVars, discVars, handleVars, prodVars, zoneVars,
      stateVars>>

\* The variables that Discover never touches.
outsideDiscover ==
    <<codecVars, rpcVars, sessionVars, handleVars, prodVars, zoneVars,
      stateVars>>

\* The variables that the callers of the two handles never touch.
outsideHandles ==
    <<codecVars, ctxVars, rpcVars, sessionVars, discVars, prodVars, zoneVars,
      stateVars>>

\* The variables that DetermineProduct never touches.
outsideProducts ==
    <<codecVars, ctxVars, rpcVars, sessionVars, discVars, handleVars, zoneVars,
      stateVars>>

vars ==
    <<codecVars, ctxVars, rpcVars, sessionVars, discVars, handleVars, prodVars,
      zoneVars, stateVars>>

----------------------------------------------------------------------------
\* Integer helpers.

Min(a, b) == IF a <= b THEN a ELSE b

Max(a, b) == IF a >= b THEN a ELSE b

\* n zero bytes.
Zeros(n) == [i \in 1..n |-> 0]

\* binary.LittleEndian.AppendUint16 of a value already reduced to 16 bits.
LE16(v) == <<v % 256, (v \div 256) % 256>>

\* binary.LittleEndian.AppendUint32.
LE32(v) == <<v % 256, (v \div 256) % 256, (v \div 65536) % 256, (v \div 16777216) % 256>>

\* binary.LittleEndian.Uint16 of the two bytes at b[i], b[i+1] (1-based).
Uint16At(b, i) == b[i] + 256 * b[i + 1]

\* binary.LittleEndian.Uint32 of the four bytes at b[i] .. b[i+3] (1-based).
Uint32At(b, i) == b[i] + 256 * b[i + 1] + 65536 * b[i + 2] + 16777216 * b[i + 3]

boolInt(b) == IF b THEN 1 ELSE 0

----------------------------------------------------------------------------
\* type header: the settable fields of the three header sections.

zeroTarget == Zeros(8)

zeroHeader ==
    [tagged |-> FALSE, source |-> 0, target |-> zeroTarget,
     resRequired |-> FALSE, ackRequired |-> FALSE, sequence |-> 0, typ |-> 0]

\* uint16(finalSize): the conversion keeps the low 16 bits.
sizeField(finalSize) == finalSize % 65536

\* encodeMessage with the two bits of the flag byte in the other order.
encodeMessageAckBitFirst(hdr, payload) ==
    LET finalSize == 8 + 16 + 12 + Len(payload)
    IN  LE16(sizeField(finalSize))
        \o <<0>>
        \o <<4 + 16 + 32 * boolInt(hdr.tagged)>>
        \o LE32(hdr.source)
        \o hdr.target
        \o Zeros(6)
        \o <<boolInt(hdr.ackRequired) + 2 * boolInt(hdr.resRequired)>>
        \o <<hdr.sequence>>
        \o Zeros(8)
        \o LE16(hdr.typ)
        \o Zeros(2)
        \o payload

\* encodeMessage(hdr, payload): 8 + 16 + 12 header bytes, then the payload.
encodeMessage(hdr, payload) ==
    LET finalSize == 8 + 16 + 12 + Len(payload)
    IN  \* Frame header (8 bytes).
        LE16(sizeField(finalSize))
        \o <<0>>
        \o <<4 + 16 + 32 * boolInt(hdr.tagged)>>
        \o LE32(hdr.source)
        \* Frame address (16 bytes).
        \o hdr.target
        \o Zeros(6)
        \o <<boolInt(hdr.resRequired) + 2 * boolInt(hdr.ackRequired)>>
        \o <<hdr.sequence>>
        \* Protocol header (12 bytes).
        \o Zeros(8)
        \o LE16(hdr.typ)
        \o Zeros(2)
        \* Payload itself.
        \o payload

\* decodeMessage with an off-by-one length test: a message of 36 bytes, a
\* header with no payload, is refused too.
decodeMessageHeaderOnlyRefused(b) ==
    IF Len(b) <= 36
    THEN [hdr |-> zeroHeader, payload |-> <<>>, err |-> "short"]
    ELSE IF Uint16At(b, 1) # Len(b)
    THEN [hdr |-> zeroHeader, payload |-> <<>>, err |-> "size"]
    ELSE [hdr |-> [zeroHeader EXCEPT !.source = Uint32At(b, 5),
                                     !.target = SubSeq(b, 9, 16),
                                     !.sequence = b[24],
                                     !.typ = Uint16At(b, 33)],
          payload |-> SubSeq(b, 37, Len(b)),
          err |-> "nil"]

\* decodeMessage(b): (hdr, payload, err). On an error the named results keep
\* their zero values. tagged, resRequired and ackRequired are never read back
\* from the buffer (the TODOs of the source), so they stay false.
decodeMessage(b) ==
    IF Len(b) < 36
    THEN [hdr |-> zeroHeader, payload |-> <<>>, err |-> "short"]
    ELSE IF Uint16At(b, 1) # Len(b)
    THEN [hdr |-> zeroHeader, payload |-> <<>>, err |-> "size"]
    ELSE [hdr |-> [zeroHeader EXCEPT !.source = Uint32At(b, 5),
                                     !.target = SubSeq(b, 9, 16),
                                     !.sequence = b[24],
                                     !.typ = Uint16At(b, 33)],
          payload |-> SubSeq(b, 37, Len(b)),
          err |-> "nil"]

----------------------------------------------------------------------------
\* Time and the context.

\* One millisecond, in clock units of 125ns.
Millisecond == 8 * 1000

Second == 1000 * Millisecond

\* Automatic retry parameters.
baseTimeout == 300 * Millisecond

maxTimeout == 10 * Second

\* ctx.Deadline() reporting ok = false.
NoDeadline == 0 - 1

\* backoff without the cap at maxTimeout.
backoffUncapped(t) == (t * 3) \div 2

\* timeout = time.Duration(float64(timeout) * backoffMult), capped at
\* maxTimeout: backoffMult is 1.5 and the conversion truncates.
backoff(t) ==
    LET next == (t * 3) \div 2
    IN  IF next > maxTimeout THEN maxTimeout ELSE next

\* WithTimeout with the parent's deadline ignored.
WithTimeoutIgnoringParent(parent, t, d) == t + d

\* The deadline of context.WithTimeout(ctx, d) made at instant t from a parent
\* whose deadline is parent: the earlier of the parent's and t + d. udpConn
\* sets it as the socket's read deadline.
WithTimeout(parent, t, d) ==
    IF parent # NoDeadline /\ parent < t + d THEN parent ELSE t + d

\* retryableErr with every failure taken as worth another try.
retryableErrAny(err) == err # "nil"

\* retryableErr(err): only context.DeadlineExceeded and a net.Error whose
\* Timeout() is true cause another try.
retryableErr(err) ==
    IF err = "nil" THEN FALSE
    ELSE IF err = "DeadlineExceeded" THEN TRUE
    ELSE IF err = "timeout" THEN TRUE
    ELSE FALSE

----------------------------------------------------------------------------
\* Device.oneRPC.

\* d.seq++ wrapping one value early.
nextSeqWrapEarly(s) == (s + 1) % 255

\* d.seq++ on a uint8.
nextSeq(s) == (s + 1) % 256

\* The header oneRPC builds for its request.
requestHeader(source, serial, r, s) ==
    [tagged |-> FALSE, source |-> source, target |-> serial \o <<0, 0>>,
     resRequired |-> r.resRequired, ackRequired |-> r.ackRequired,
     sequence |-> s, typ |-> r.reqType]

\* checkResponse with the sequence comparison left out.
checkResponseNoSeq(hdr, body, source, respType, s) ==
    IF hdr.source # source THEN [payload |-> <<>>, err |-> "source"]
    ELSE IF hdr.typ # respType THEN [payload |-> <<>>, err |-> "type"]
    ELSE [payload |-> body, err |-> "nil"]

\* The three comparisons oneRPC makes once retry has returned nil, and what
\* oneRPC returns after them.
checkResponse(hdr, body, source, respType, s) ==
    IF hdr.source # source THEN [payload |-> <<>>, err |-> "source"]
    ELSE IF hdr.typ # respType THEN [payload |-> <<>>, err |-> "type"]
    ELSE IF hdr.sequence # s THEN [payload |-> <<>>, err |-> "seq"]
    ELSE [payload |-> body, err |-> "nil"]

\* seqCell with one counter for all handles.
seqCellShared(h) == 1

\* The Device whose field d.seq oneRPC reads and advances: its receiver.
seqCell(h) == h

\* attemptDatagram with the request encoded afresh on each attempt, from the
\* device's current counter.
attemptDatagramResequenced(m, source, serial, r, cur) ==
    encodeMessage(requestHeader(source, serial, r, cur), r.reqBody)

\* The bytes an attempt writes: msg, captured by the closure.
attemptDatagram(m, source, serial, r, cur) == m

\* Message type of the acknowledgement.
pktAcknowledgement == 45

\* d.query(ctx, reqType, respType, reqBody): the arguments it hands to oneRPC.
query(reqType, respType, reqBody) ==
    [api |-> "query", reqType |-> reqType, respType |-> respType,
     reqBody |-> reqBody, resRequired |-> TRUE, ackRequired |-> FALSE]

\* set asking for a response instead of an acknowledgement.
setAskingForResponse(reqType, reqBody) ==
    [api |-> "set", reqType |-> reqType, respType |-> pktAcknowledgement,
     reqBody |-> reqBody, resRequired |-> TRUE, ackRequired |-> FALSE]

\* d.set(ctx, reqType, reqBody): the arguments it hands to oneRPC.
set(reqType, reqBody) ==
    [api |-> "set", reqType |-> reqType, respType |-> pktAcknowledgement,
     reqBody |-> reqBody, resRequired |-> FALSE, ackRequired |-> TRUE]

\* Message types of the calls that build a payload or parse one.
pktSetWaveform == 103

pktGetLightPower == 116

pktSetLightPower == 117

pktStateLightPower == 118

pktSetExtendedColorZones == 510

pktGetExtendedColorZones == 511

pktStateExtendedColorZones == 512

noRequest ==
    [api |-> "none", reqType |-> 0, respType |-> 0, reqBody |-> <<>>,
     resRequired |-> FALSE, ackRequired |-> FALSE]

\* What query and set hand back of oneRPC's (payload, err): query both, set
\* the error alone.
returned(r, res) ==
    IF r.api = "set" THEN [payload |-> <<>>, err |-> res.err] ELSE res

----------------------------------------------------------------------------
\* Discover.

\* The source identifier of the probe. The source writes 0xdeadbeef, which
\* is beyond the integers TLC computes with; the model keeps its low 31 bits,
\* 0x5eadbeef. Discover never reads the value back.
probeSource == 239 + 256 * 190 + 65536 * 173 + 16777216 * 94

\* The header of the discovery probe: GetService(2), tagged, to all devices.
probeHeader ==
    [tagged |-> TRUE, source |-> probeSource, target |-> zeroTarget,
     resRequired |-> FALSE, ackRequired |-> FALSE, sequence |-> 1, typ |-> 2]

\* acceptsReply with no look at the service byte.
acceptsReplyAnyService(d) ==
    /\ d.err = "nil"
    /\ d.hdr.typ = 3
    /\ Len(d.payload) = 5
    /\ Uint32At(d.payload, 2) <= 65535

\* acceptsReply with no upper limit on the port.
acceptsReplyAnyPort(d) ==
    /\ d.err = "nil"
    /\ d.hdr.typ = 3
    /\ Len(d.payload) = 5
    /\ d.payload[1] = 1

\* The tests of Discover's loop on d = decodeMessage(b), which a datagram
\* passes to become a Device: it decodes, is a StateService(3), has a
\* payload of 5 bytes, names service 1 (UDP) and a port of at most 0xffff.
acceptsReply(d) ==
    /\ d.err = "nil"
    /\ d.hdr.typ = 3
    /\ Len(d.payload) = 5
    /\ d.payload[1] = 1
    /\ Uint32At(d.payload, 2) <= 65535

\* newDevice with the counter starting at 1.
newDeviceCountingFromOne(raddr, hdr, payload) ==
    [Addr |-> [IP |-> raddr.IP, Port |-> Uint32At(payload, 2)],
     Serial |-> SubSeq(hdr.target, 1, 6),
     seq |-> 1]

\* The Device that Discover appends: the sender's IP with the port from the
\* payload, and the first 6 bytes of the target. The literal names Addr and
\* Serial only, so the Device's counter seq has its zero value.
newDevice(raddr, hdr, payload) ==
    [Addr |-> [IP |-> raddr.IP, Port |-> Uint32At(payload, 2)],
     Serial |-> SubSeq(hdr.target, 1, 6),
     seq |-> 0]

\* readFailed handing back what was collected.
readFailedKeepingDevices(collected) == [devs |-> collected, err |-> "read"]

\* What Discover returns when ReadFrom fails and the failure is no timeout.
readFailed(collected) == [devs |-> <<>>, err |-> "read"]

----------------------------------------------------------------------------
\* Payload builders and parsers: durations, colors, the extended color zones,
\* SetLightPower and SetWaveform.

\* A time.Duration d is written [neg, hi, lo, ns]: its magnitude is
\* hi * 65536 + lo whole milliseconds and ns further nanoseconds, ns below a
\* million; neg says that d is below zero. A uint32 is written [hi, lo], its
\* two 16-bit halves.

\* d.Milliseconds(): the int64 division of the nanoseconds by a million, which
\* truncates toward zero.
Milliseconds(d) ==
    [neg |-> d.neg /\ (d.hi > 0 \/ d.lo > 0), hi |-> d.hi, lo |-> d.lo]

\* uint32Millis(d): dur < 0 || dur > math.MaxUint32 fails, tested on the
\* millisecond count.
uint32Millis(d) ==
    LET dur == Milliseconds(d)
    IN  IF dur.neg \/ dur.hi > 65535
        THEN [v |-> [hi |-> 0, lo |-> 0], err |-> "duration out of range"]
        ELSE [v |-> [hi |-> dur.hi, lo |-> dur.lo], err |-> "nil"]

\* binary.LittleEndian.PutUint32 of a uint32 given by its halves.
PutUint32(v) == LE16(v.lo) \o LE16(v.hi)

\* Color.encode with brightness written before saturation.
encodeBrightnessFirst(c) ==
    LE16(c.Hue) \o LE16(c.Brightness) \o LE16(c.Saturation) \o LE16(c.Kelvin)

\* Color.encode: hue, saturation, brightness, kelvin.
encode(c) ==
    LE16(c.Hue) \o LE16(c.Saturation) \o LE16(c.Brightness) \o LE16(c.Kelvin)

\* Color.decode of the eight bytes b.
decode(b) ==
    [Hue |-> Uint16At(b, 1), Saturation |-> Uint16At(b, 3),
     Brightness |-> Uint16At(b, 5), Kelvin |-> Uint16At(b, 7)]

\* The loop of SetExtendedColorZones over zones, from the i-th on.
RECURSIVE encodeZones(_, _)
encodeZones(zones, i) ==
    IF i > Len(zones) THEN <<>> ELSE encode(zones[i]) \o encodeZones(zones, i + 1)

\* The test of SetExtendedColorZones with the limit one higher.
tooManyZonesOver83(zones) == Len(zones) > 82 + 1

\* The first test of SetExtendedColorZones.
tooManyZones(zones) == Len(zones) > 82

\* SetExtendedColorZones up to its call of d.set: the error it returns
\* without calling, or the request it hands to oneRPC.
setExtendedColorZonesRequest(duration, zones) ==
    IF tooManyZones(zones)
    THEN [err |-> "too many zones", req |-> noRequest]
    ELSE IF uint32Millis(duration).err # "nil"
    THEN [err |-> uint32Millis(duration).err, req |-> noRequest]
    ELSE [err |-> "nil",
          req |-> set(pktSetExtendedColorZones,
                      PutUint32(uint32Millis(duration).v) \o <<1>> \o LE16(0)
                        \o <<Len(zones) % 256>> \o encodeZones(zones, 1))]

\* SetLightPower up to its call of d.set. The result of AppendUint32 is
\* dropped, so the payload is the level alone.
setLightPowerRequest(level, duration) ==
    IF uint32Millis(duration).err # "nil"
    THEN [err |-> uint32Millis(duration).err, req |-> noRequest]
    ELSE [err |-> "nil", req |-> set(pktSetLightPower, LE16(level))]

\* math.Float32bits of a float32 given by its sign, biased exponent and
\* mantissa, as a uint32.
Float32bits(f) ==
    [hi |-> f.sign * 32768 + f.exp * 128 + f.mant \div 65536, lo |-> f.mant % 65536]

\* SetWaveform up to its call of d.set.
setWaveformRequest(cfg) ==
    IF uint32Millis(cfg.Period).err # "nil"
    THEN [err |-> uint32Millis(cfg.Period).err, req |-> noRequest]
    ELSE [err |-> "nil",
          req |-> set(pktSetWaveform,
                      <<0, boolInt(cfg.Transient)>> \o encode(cfg.Color)
                        \o PutUint32(uint32Millis(cfg.Period).v)
                        \o PutUint32(Float32bits(cfg.Cycles))
                        \o <<0, 0, cfg.Waveform % 256>>)]

\* GetLightPower after d.query returned res = (payload, err).
stateLightPower(res) ==
    IF res.err # "nil" THEN [power |-> 0, err |-> res.err]
    ELSE IF Len(res.payload) # 2 THEN [power |-> 0, err |-> "malformed"]
    ELSE [power |-> Uint16At(res.payload, 1), err |-> "nil"]

\* State{}.
zeroState == [power |-> 0, zones |-> <<>>]

\* GetExtendedColorZones after d.query returned res, with no test of the
\* first zone's index.
stateExtendedColorZonesAnyIndex(res) ==
    LET payload == res.payload
        zonesCount == Uint16At(payload, 1)
        colorsCount == payload[5]
        colors == SubSeq(payload, 6, Len(payload))
    IN  IF res.err # "nil" THEN [zones |-> <<>>, err |-> res.err]
        ELSE IF Len(payload) < 5 THEN [zones |-> <<>>, err |-> "too short"]
        ELSE IF colorsCount * 8 > Len(colors) THEN [zones |-> <<>>, err |-> "too short"]
        ELSE IF zonesCount # colorsCount THEN [zones |-> <<>>, err |-> "partial"]
        ELSE [zones |-> [i \in 1..colorsCount |->
                            decode(SubSeq(colors, 8 * (i - 1) + 1, 8 * i))],
              err |-> "nil"]

\* GetExtendedColorZones after d.query returned res = (payload, err).
stateExtendedColorZones(res) ==
    LET payload == res.payload
        zonesCount == Uint16At(payload, 1)
        zoneIndex == Uint16At(payload, 3)
        colorsCount == payload[5]
        colors == SubSeq(payload, 6, Len(payload))
    IN  IF res.err # "nil" THEN [zones |-> <<>>, err |-> res.err]
        ELSE IF Len(payload) < 5 THEN [zones |-> <<>>, err |-> "too short"]
        ELSE IF colorsCount * 8 > Len(colors) THEN [zones |-> <<>>, err |-> "too short"]
        ELSE IF zonesCount # colorsCount \/ zoneIndex # 0
        THEN [zones |-> <<>>, err |-> "partial"]
        ELSE [zones |-> [i \in 1..colorsCount |->
                            decode(SubSeq(colors, 8 * (i - 1) + 1, 8 * i))],
              err |-> "nil"]

----------------------------------------------------------------------------
\* Products: ProductCapabilities.merge and DetermineProduct.
\*
\* A *bool and a []uint16 are addresses into heap, 0 for nil; the cell of a
\* *bool holds the boolean, the cell of a slice holds its elements.

BoolFields == {"HEV", "Color", "Matrix", "Multizone", "ExtendedMultizone"}

\* ProductCapabilities{}: every field nil.
nilCaps ==
    [HEV |-> 0, Color |-> 0, Matrix |-> 0, Multizone |-> 0,
     TemperatureRange |-> 0, ExtendedMultizone |-> 0]

\* Product{}.
zeroProduct == [PID |-> 0, Name |-> "", Features |-> nilCaps, Upgrades |-> <<>>]

\* copyBool of merge, on field f of pc: a nil src changes nothing; otherwise
\* the boolean is written to the cell dst points to, a fresh one if dst is nil.
copyBool(st, f, src) ==
    IF st.panic \/ src = 0 THEN st
    ELSE LET st1 == IF st.pc[f] = 0
                    THEN [st EXCEPT !.heap = Append(st.heap, FALSE),
                                    !.pc[f] = Len(st.heap) + 1]
                    ELSE st
         IN  [st1 EXCEPT !.heap[st1.pc[f]] = st.heap[src]]

\* merge that lets a layer switch a feature on but never off.
mergeOnlyTrue(st, o) ==
    LET on(f) == IF o[f] # 0 /\ st.heap[o[f]] THEN o[f] ELSE 0
        s1 == copyBool(st, "HEV", on("HEV"))
        s2 == copyBool(s1, "Color", on("Color"))
        s3 == copyBool(s2, "Matrix", on("Matrix"))
        s4 == copyBool(s3, "Multizone", on("Multizone"))
        tr == IF o.TemperatureRange = 0 THEN <<>> ELSE s4.heap[o.TemperatureRange]
        s5 == IF s4.panic \/ Len(tr) = 0 THEN s4
              ELSE IF Len(tr) < 2 THEN [s4 EXCEPT !.panic = TRUE]
              ELSE [s4 EXCEPT !.heap = Append(s4.heap, <<tr[1], tr[2]>>),
                              !.pc.TemperatureRange = Len(s4.heap) + 1]
    IN  copyBool(s5, "ExtendedMultizone", on("ExtendedMultizone"))

\* merge that takes over the layer's slice instead of copying its values.
mergeSharingRange(st, o) ==
    LET s1 == copyBool(st, "HEV", o.HEV)
        s2 == copyBool(s1, "Color", o.Color)
        s3 == copyBool(s2, "Matrix", o.Matrix)
        s4 == copyBool(s3, "Multizone", o.Multizone)
        tr == IF o.TemperatureRange = 0 THEN <<>> ELSE s4.heap[o.TemperatureRange]
        s5 == IF s4.panic \/ Len(tr) = 0 THEN s4
              ELSE IF Len(tr) < 2 THEN [s4 EXCEPT !.panic = TRUE]
              ELSE [s4 EXCEPT !.pc.TemperatureRange = o.TemperatureRange]
    IN  copyBool(s5, "ExtendedMultizone", o.ExtendedMultizone)

\* pc.merge(o) on st = [heap, pc, panic, applied]: the five booleans through
\* copyBool; a TemperatureRange of o that is not empty is copied, its first
\* two values, into a fresh slice. Reading tr[1] of a slice of one value is an
\* index out of range: the run-time panics.
merge(st, o) ==
    LET s1 == copyBool(st, "HEV", o.HEV)
        s2 == copyBool(s1, "Color", o.Color)
        s3 == copyBool(s2, "Matrix", o.Matrix)
        s4 == copyBool(s3, "Multizone", o.Multizone)
        tr == IF o.TemperatureRange = 0 THEN <<>> ELSE s4.heap[o.TemperatureRange]
        s5 == IF s4.panic \/ Len(tr) = 0 THEN s4
              ELSE IF Len(tr) < 2 THEN [s4 EXCEPT !.panic = TRUE]
              ELSE [s4 EXCEPT !.heap = Append(s4.heap, <<tr[1], tr[2]>>),
                              !.pc.TemperatureRange = Len(s4.heap) + 1]
    IN  copyBool(s5, "ExtendedMultizone", o.ExtendedMultizone)

\* The first vendor of file with the given VID, 0 when there is none.
findVendor(f, vendorID) ==
    LET S == {i \in 1..Len(f) : f[i].VID = vendorID}
    IN  IF S = {} THEN 0 ELSE CHOOSE i \in S : \A j \in S : i <= j

\* findProduct that falls back on the vendor's first product.
findProductOrFirst(products, productID) ==
    LET S == {i \in 1..Len(products) : products[i].PID = productID}
    IN  IF S = {} THEN 1 ELSE CHOOSE i \in S : \A j \in S : i <= j

\* The first product of the vendor with the given PID, 0 when there is none.
findProduct(products, productID) ==
    LET S == {i \in 1..Len(products) : products[i].PID = productID}
    IN  IF S = {} THEN 0 ELSE CHOOSE i \in S : \A j \in S : i <= j

\* The gate as a comparison of versions: a higher major passes whatever the
\* minor.
gateVersionOrder(fw, u) ==
    fw.Major > u.Major \/ (fw.Major = u.Major /\ fw.Minor >= u.Minor)

\* firmwareVersion.Major >= u.Major && firmwareVersion.Minor >= u.Minor
gate(fw, u) == fw.Major >= u.Major /\ fw.Minor >= u.Minor

\* The capabilities DetermineProduct starts from with one boolean left nil.
baselineWithoutMatrix(h) ==
    [heap |-> h \o <<FALSE, FALSE, FALSE, FALSE>>,
     pc |-> [HEV |-> Len(h) + 1, Color |-> Len(h) + 2, Matrix |-> 0,
             Multizone |-> Len(h) + 3, TemperatureRange |-> 0,
             ExtendedMultizone |-> Len(h) + 4],
     panic |-> FALSE, applied |-> <<>>]

\* The capabilities DetermineProduct starts from: five boolPtr(false), no
\* TemperatureRange.
baseline(h) ==
    [heap |-> h \o <<FALSE, FALSE, FALSE, FALSE, FALSE>>,
     pc |-> [HEV |-> Len(h) + 1, Color |-> Len(h) + 2, Matrix |-> Len(h) + 3,
             Multizone |-> Len(h) + 4, TemperatureRange |-> 0,
             ExtendedMultizone |-> Len(h) + 5],
     panic |-> FALSE, applied |-> <<>>]

\* The loop over product.Upgrades, from the i-th on.
RECURSIVE applyUpgrades(_, _, _, _)
applyUpgrades(st, ups, fw, i) ==
    IF i > Len(ups) \/ st.panic THEN st
    ELSE IF gate(fw, ups[i])
    THEN applyUpgrades([merge(st, ups[i].Features) EXCEPT !.applied = Append(@, i)],
                       ups, fw, i + 1)
    ELSE applyUpgrades(st, ups, fw, i + 1)

\* DetermineProduct(file, vendorID, productID, firmwareVersion) on memory h:
\* the memory afterwards, (Product, error), whether the run-time panicked,
\* and the upgrades whose features were merged.
DetermineProduct(h, f, vendorID, productID, fw) ==
    LET v == findVendor(f, vendorID)
        failed(e) == [heap |-> h, product |-> zeroProduct, err |-> e,
                      panic |-> FALSE, applied |-> <<>>]
    IN  IF v = 0 THEN failed("unknown vendor")
        ELSE LET p == findProduct(f[v].Products, productID)
             IN  IF p = 0 THEN failed("unknown product")
                 ELSE LET product == f[v].Products[p]
                          s1 == merge(baseline(h), f[v].Defaults)
                          s2 == merge(s1, product.Features)
                          s3 == applyUpgrades(s2, product.Upgrades, fw, 1)
                      IN  IF s3.panic
                          THEN [heap |-> h, product |-> zeroProduct, err |-> "none",
                                panic |-> TRUE, applied |-> s3.applied]
                          ELSE [heap |-> s3.heap,
                                product |-> [product EXCEPT !.Features = s3.pc],
                                err |-> "nil", panic |-> FALSE,
                                applied |-> s3.applied]

\* What a ProductCapabilities says, read through its pointers: <<>> for a nil
\* field, <<b>> for a boolean, the values of the slice for the range.
capsValue(h, c) ==
    [f \in DOMAIN c |-> IF c[f] = 0 THEN <<>>
                        ELSE IF f = "TemperatureRange" THEN h[c[f]]
                        ELSE <<h[c[f]]>>]

----------------------------------------------------------------------------
\* Bounds and inputs.

\* Longest payload of the exhaustively enumerated small payloads.
MaxPayloadLen == 2

\* oneRPC calls made on the Device.
MaxCalls == 257

\* Attempts of one exchange.
MaxAttempts == 11

\* Byte values the enumerated payloads and the damage are drawn from.
PayloadBytes == {0, 1, 255}

SmallPayloads == UNION {[1..n -> PayloadBytes] : n \in 0..MaxPayloadLen}

\* Payloads around the length at which 36 + len(payload) leaves 16 bits.
BigPayloads == {Zeros(n) : n \in {65536 - 36 - 1, 65536 - 36}}

\* A device serial.
Serial == <<208, 115, 213, 1, 2, 3>>

\* Source identifiers (uint32 values that fit TLC's integers).
OurSource == 4 + 256 * 3 + 65536 * 2 + 16777216 * 1

OtherSource == 255 + 256 * 255 + 65536 * 255 + 16777216 * 127

CodecHeaders ==
    [tagged : BOOLEAN, source : {OurSource, OtherSource},
     target : {zeroTarget, Serial \o <<0, 0>>},
     resRequired : BOOLEAN, ackRequired : BOOLEAN,
     sequence : {0, 255}, typ : {2, 65535}]

noDecode == [hdr |-> zeroHeader, payload |-> <<>>, err |-> "none"]

noResult == [payload |-> <<>>, err |-> "none"]

\* Byte offsets (1-based) the damage may overwrite: size, protocol and flag
\* bytes, low source byte, target, reserved, flags, sequence, reserved, type,
\* reserved, and the first payload byte.
DamageOffsets == {1, 2, 3, 4, 5, 9, 17, 23, 24, 25, 33, 34, 35, 37}

\* The calls made in the long run of exchanges: GetPower and SetLightPower.
Requests == {query(20, 22, <<>>), set(117, LE16(65535))}

\* The calls made in a short session: two queries and two commands,
\* GetPower, GetLightPower, SetLightPower and SetColor.
SessionRequests ==
    {query(20, 22, <<>>), query(116, 118, <<>>),
     set(117, LE16(65535)), set(102, Zeros(13))}

\* oneRPC calls made in a short session.
MaxSessionCalls == 2

\* The local ports net.ListenUDP("udp4", &net.UDPAddr{}) may bind a socket
\* to: port 0 is asked for, and the system picks one of its n ephemeral
\* ports.
EphemeralPorts(n) == 49152..(49152 + n - 1)

\* Ephemeral ports of the system in the runs that follow the sockets.
MaxPorts == 2

\* The ports no open socket of the process is bound to.
FreePorts == portPool \ {c.port : c \in conns \cup dConns}

\* A socket bound to port p, opened by attempt k of the exchange (0 for
\* Discover).
newConn(p, k) == [port |-> p, by |-> k]

\* closeConn with the deferred Close left out.
closeConnLeaking(cs, k) == cs

\* defer conn.Close() at the end of attempt k (0 for Discover): the socket
\* it opened is closed.
closeConn(cs, k) == {c \in cs : c.by # k}

noLateRead == [of |-> 0, by |-> 0]

noPorts == [prev |-> 0, cur |-> 0]

\* Deadlines of the caller's context.
CtxDeadlines == {NoDeadline, 100 * Millisecond, 1 * Second}

\* Contexts that are not done when oneRPC is called at instant 0.
LiveContexts ==
    {[deadline |-> dl, err |-> "nil", doneAt |-> NoDeadline, now |-> 0] :
        dl \in CtxDeadlines}

\* Contexts that are done already when oneRPC is called: cancelled, without
\* and with a deadline still ahead, and with a deadline that has elapsed
\* 50ms before the call.
DoneContexts ==
    {[deadline |-> NoDeadline, err |-> "Canceled", doneAt |-> 0, now |-> 0],
     [deadline |-> 1 * Second, err |-> "Canceled", doneAt |-> 0, now |-> 0],
     [deadline |-> 50 * Millisecond, err |-> "DeadlineExceeded",
      doneAt |-> 50 * Millisecond, now |-> 100 * Millisecond]}

\* oneRPC calls made with contexts of both kinds.
MaxEntryCalls == 1

\* Contexts of the exchanges whose sockets are followed: the ones with a
\* deadline.
SocketContexts == {c \in LiveContexts : c.deadline # NoDeadline}

\* oneRPC calls whose sockets are followed.
MaxSocketCalls == 1

\* Devices found by the Discover whose socket is followed.
MaxSocketDevs == 1

\* Devices Discover may return.
MaxDevs == 3

\* A second device serial.
SerialB == <<208, 115, 213, 4, 5, 6>>

\* The port LIFX devices listen on.
stdPort == 56700

\* Deadlines of the context given to Discover.
DiscoverDeadlines == {NoDeadline, 1 * Second}

\* Who answers: the address ReadFrom reports for a datagram. The second
\* sender answers from a port that is not the one its payload names.
Senders ==
    {[IP |-> <<192, 168, 1, 10>>, Port |-> stdPort],
     [IP |-> <<192, 168, 1, 11>>, Port |-> 40000]}

\* What may arrive on Discover's socket: a StateService for UDP and port
\* 56700 in answer to the probe, and messages that differ from it in the
\* serial, the source, the sequence number, the type, the payload's length,
\* service or port, or that do not decode.
Replies ==
    LET h == [zeroHeader EXCEPT !.source = probeSource,
                                !.target = Serial \o <<0, 0>>,
                                !.sequence = 1, !.typ = 3]
        p == <<1>> \o LE32(stdPort)
        good == encodeMessage(h, p)
    IN  {good,
         encodeMessage([h EXCEPT !.target = SerialB \o <<0, 0>>], p),
         encodeMessage([h EXCEPT !.source = OtherSource], p),
         encodeMessage([h EXCEPT !.sequence = 7], p),
         encodeMessage([h EXCEPT !.typ = 45], p),
         encodeMessage([h EXCEPT !.typ = 2], <<>>),
         encodeMessage(h, SubSeq(p, 1, 4)),
         encodeMessage(h, p \o <<0>>),
         encodeMessage(h, <<5>> \o LE32(stdPort)),
         encodeMessage(h, <<1>> \o LE32(65535)),
         encodeMessage(h, <<1>> \o LE32(65536)),
         encodeMessage(h, <<1, 0, 0, 0, 1>>),
         SubSeq(good, 1, 35),
         Append(good, 0)}

noDatagram == [b |-> <<>>, raddr |-> [IP |-> <<0, 0, 0, 0>>, Port |-> 0]]

noDiscoverResult == [devs |-> <<>>, err |-> "none"]

\* Two handles and two callers.
Handles == {1, 2}

Callers == {1, 2}

\* Exchanges begun on a handle whose callers do not serialize them.
MaxRacingCalls == 3

\* The Devices behind the handles, as Discover made them from the answers of
\* two devices.
Devices0 ==
    LET p == <<1>> \o LE32(stdPort)
    IN  <<newDevice([IP |-> <<192, 168, 1, 10>>, Port |-> stdPort],
                    [zeroHeader EXCEPT !.target = Serial \o <<0, 0>>], p),
          newDevice([IP |-> <<192, 168, 1, 11>>, Port |-> 40000],
                    [zeroHeader EXCEPT !.target = SerialB \o <<0, 0>>], p)>>

\* A caller that is not in oneRPC.
idleCaller(h) ==
    [h |-> h, pc |-> "idle", seq |-> 0, tmp |-> 0, msg |-> <<>>, idx |-> 0, prev |-> 0]

\* d.seq of a Device as Discover hands it over.
InitSeqs ==
    {newDevice(s, decodeMessage(b).hdr, decodeMessage(b).payload).seq :
        s \in Senders, b \in {r \in Replies : acceptsReply(decodeMessage(r))}}

\* Durations given to the calls: 0, 1.5ms, 65536ms, 4294967295ms, half a
\* millisecond more, 4294967296ms, -1ms and -0.5ms.
Durations ==
    {[neg |-> FALSE, hi |-> 0, lo |-> 0, ns |-> 0],
     [neg |-> FALSE, hi |-> 0, lo |-> 1, ns |-> 500000],
     [neg |-> FALSE, hi |-> 1, lo |-> 0, ns |-> 0],
     [neg |-> FALSE, hi |-> 65535, lo |-> 65535, ns |-> 0],
     [neg |-> FALSE, hi |-> 65535, lo |-> 65535, ns |-> 500000],
     [neg |-> FALSE, hi |-> 65536, lo |-> 0, ns |-> 0],
     [neg |-> TRUE, hi |-> 0, lo |-> 1, ns |-> 0],
     [neg |-> TRUE, hi |-> 0, lo |-> 0, ns |-> 500000]}

\* Durations given to SetLightPower and SetWaveform: 1.5ms, 4294967296ms,
\* -1ms and -0.5ms.
FewDurations ==
    {d \in Durations : d.neg \/ d.hi = 65536 \/ (d.hi = 0 /\ d.lo = 1)}

\* The i-th zone's color.
zoneColor(i) ==
    [Hue |-> (i * 7919) % 65536, Saturation |-> 65535 - i,
     Brightness |-> 256 * i + 1, Kelvin |-> 3500]

\* Lengths of the zone lists given to SetExtendedColorZones.
ZoneLengths == {0, 1, 2, 82, 83}

ZoneLists == {[i \in 1..n |-> zoneColor(i)] : n \in ZoneLengths}

\* Arguments of SetExtendedColorZones: every duration with two zones, every
\* list of zones with 1.5ms, and 83 zones with -1ms.
ZoneSettings ==
    {[duration |-> d, zones |-> z] : d \in Durations, z \in {z \in ZoneLists : Len(z) = 2}}
    \cup {[duration |-> d, zones |-> z] :
             d \in {d \in Durations : ~d.neg /\ d.hi = 0 /\ d.lo = 1}, z \in ZoneLists}
    \cup {[duration |-> d, zones |-> z] :
             d \in {d \in Durations : d.neg /\ d.lo = 1},
             z \in {z \in ZoneLists : Len(z) > 82}}

\* Levels given to SetLightPower.
Levels == {0, 65535}

\* Configurations given to SetWaveform: a sine of one cycle and a transient
\* pulse of two and a half.
WaveformConfigs ==
    {[Waveform |-> 1, Transient |-> FALSE, Color |-> zoneColor(1), Period |-> d,
      Cycles |-> [sign |-> 0, exp |-> 127, mant |-> 0]] : d \in FewDurations}
    \cup
    {[Waveform |-> 4, Transient |-> TRUE, Color |-> zoneColor(2), Period |-> d,
      Cycles |-> [sign |-> 0, exp |-> 128, mant |-> 2097152]] : d \in FewDurations}

\* API calls made on the Device.
MaxZoneCalls == 1

\* Exchanges of a CaptureState followed by a RestoreState.
MaxStateCalls == 4

noZoneCall ==
    [n |-> 0, op |-> "none",
     duration |-> [neg |-> FALSE, hi |-> 0, lo |-> 0, ns |-> 0],
     zones |-> <<>>, level |-> 0,
     cfg |-> [Waveform |-> 0, Transient |-> FALSE,
              Color |-> [Hue |-> 0, Saturation |-> 0, Brightness |-> 0, Kelvin |-> 0],
              Period |-> [neg |-> FALSE, hi |-> 0, lo |-> 0, ns |-> 0],
              Cycles |-> [sign |-> 0, exp |-> 0, mant |-> 0]]]

noZoneResult == [zones |-> <<>>, err |-> "none"]

\* Payloads a device may send as StateExtendedColorZones: one too short for
\* the prefix, an empty strip, two zones with their two colors, the same
\* followed by three bytes and by a third color, one color counted with two
\* present, three and 258 zones with two colors, two zones from index 1 on,
\* two colors counted with a byte missing, and a strip of 83 zones with
\* its 83 colors.
ZoneStates ==
    LET two == encodeZones(<<zoneColor(1), zoneColor(2)>>, 1)
        stripState(zonesCount, zoneIndex, colorsCount, colors) ==
            LE16(zonesCount) \o LE16(zoneIndex) \o <<colorsCount>> \o colors
    IN  {<<2, 0, 0, 0>>,
         stripState(0, 0, 0, <<>>),
         stripState(2, 0, 2, two),
         stripState(2, 0, 2, two \o <<9, 9, 9>>),
         stripState(2, 0, 2, two \o encode(zoneColor(3))),
         stripState(1, 0, 1, two),
         stripState(3, 0, 2, two),
         stripState(258, 0, 2, two),
         stripState(2, 1, 2, two),
         stripState(2, 0, 2, SubSeq(two, 1, 15)),
         stripState(82 + 1, 0, 82 + 1,
               encodeZones([i \in 1..(82 + 1) |-> zoneColor(i)], 1))}

\* What a responder on the network may answer to the request in progress:
\* well-formed messages that agree or disagree with it in source, type and
\* sequence, and two malformed ones.
Responses ==
    LET hdrs == [tagged : {FALSE}, source : {clientSource, OtherSource},
                 target : {Serial \o <<0, 0>>},
                 resRequired : {FALSE}, ackRequired : {FALSE},
                 sequence : {seq, (seq + 255) % 256},
                 typ : {req.respType, 107}]
        good == encodeMessage([zeroHeader EXCEPT !.source = clientSource,
                                                 !.sequence = seq,
                                                 !.typ = req.respType], <<>>)
        states == IF req.respType = pktStateExtendedColorZones
                  THEN {encodeMessage([zeroHeader EXCEPT !.source = clientSource,
                                                          !.sequence = seq,
                                                          !.typ = req.respType], p) :
                            p \in ZoneStates}
                  ELSE {}
    IN  {encodeMessage(h, <<255, 255>>) : h \in hdrs}
        \cup {good, SubSeq(good, 1, 35), Append(good, 0)}
        \cup states

\* Layers of a catalog, as the values products.json gives them: <<>> for a
\* field the layer leaves out.
noLayer ==
    [HEV |-> <<>>, Color |-> <<>>, Matrix |-> <<>>, Multizone |-> <<>>,
     TemperatureRange |-> <<>>, ExtendedMultizone |-> <<>>]

allFalseLayer ==
    [HEV |-> <<FALSE>>, Color |-> <<FALSE>>, Matrix |-> <<FALSE>>,
     Multizone |-> <<FALSE>>, TemperatureRange |-> <<>>,
     ExtendedMultizone |-> <<FALSE>>]

DefaultsChoices ==
    {noLayer, allFalseLayer,
     [noLayer EXCEPT !.HEV = <<TRUE>>, !.TemperatureRange = <<2700, 6500>>]}

FeaturesChoices ==
    {noLayer,
     [noLayer EXCEPT !.Color = <<TRUE>>, !.Multizone = <<TRUE>>,
                     !.TemperatureRange = <<2500, 9000>>],
     [noLayer EXCEPT !.HEV = <<FALSE>>, !.Matrix = <<TRUE>>],
     [noLayer EXCEPT !.Color = <<TRUE>>, !.TemperatureRange = <<2500>>]}

FirstUpgradeChoices ==
    {noLayer,
     [noLayer EXCEPT !.ExtendedMultizone = <<TRUE>>],
     [noLayer EXCEPT !.Color = <<FALSE>>, !.TemperatureRange = <<2000, 8000>>]}

SecondUpgradeChoices ==
    {[noLayer EXCEPT !.TemperatureRange = <<1500, 9000>>],
     [noLayer EXCEPT !.Color = <<TRUE>>, !.ExtendedMultizone = <<FALSE>>],
     [noLayer EXCEPT !.TemperatureRange = <<1500>>]}

\* json.Unmarshal of one layer into memory h: a cell for every field the
\* layer gives, in the order of the struct.
RECURSIVE decodeLayer(_, _, _)
decodeLayer(h, layer, fields) ==
    IF fields = <<>> THEN [heap |-> h, caps |-> nilCaps]
    ELSE LET f == Head(fields)
             r == decodeLayer(IF layer[f] = <<>> THEN h
                              ELSE Append(h, IF f = "TemperatureRange" THEN layer[f]
                                             ELSE layer[f][1]),
                              layer, Tail(fields))
         IN  IF layer[f] = <<>> THEN r
             ELSE [r EXCEPT !.caps[f] = Len(h) + 1]

CapsFields ==
    <<"HEV", "Color", "Matrix", "Multizone", "TemperatureRange", "ExtendedMultizone">>

\* The catalog decoded from a products.json of two vendors: vendor 1 with
\* defaults d and the products 1 and 32, the latter with features f and the
\* upgrades u1 from firmware 2.77 and u2 from 2.80; vendor 2 with one product.
decodeCatalog(d, f, u1, u2) ==
    LET a == decodeLayer(<<>>, d, CapsFields)
        b == decodeLayer(a.heap, f, CapsFields)
        c == decodeLayer(b.heap, u1, CapsFields)
        e == decodeLayer(c.heap, u2, CapsFields)
    IN  [heap |-> e.heap,
         file |->
           <<[VID |-> 1, Name |-> "LIFX", Defaults |-> a.caps,
              Products |->
                <<[PID |-> 1, Name |-> "LIFX Original 1000",
                   Features |-> nilCaps, Upgrades |-> <<>>],
                  [PID |-> 32, Name |-> "LIFX Z", Features |-> b.caps,
                   Upgrades |->
                     <<[Major |-> 2, Minor |-> 77, Features |-> c.caps],
                       [Major |-> 2, Minor |-> 80, Features |-> e.caps]>>]>>],
             [VID |-> 2, Name |-> "Other", Defaults |-> nilCaps,
              Products |->
                <<[PID |-> 7, Name |-> "Lamp", Features |-> nilCaps,
                   Upgrades |-> <<>>]>>]>>]

\* Arguments of DetermineProduct.
VendorIDs == {1, 2, 9}

ProductIDs == {32, 7, 99}

Firmwares == [Major : {1, 2, 3}, Minor : {70, 78, 80}]

noArgs == [vendorID |-> 0, productID |-> 0, fw |-> [Major |-> 0, Minor |-> 0]]

noProductResult ==
    [heap |-> <<>>, product |-> zeroProduct, err |-> "none", panic |-> FALSE,
     applied |-> <<>>]

----------------------------------------------------------------------------
\* The exchange: Device.oneRPC with Device.retry and the attempt closure.

CodecIdle ==
    /\ cpc = "init"
    /\ encIn = [hdr |-> zeroHeader, payload |-> <<>>]
    /\ buf = <<>>
    /\ damaged = FALSE
    /\ dec = noDecode

DiscoverIdle ==
    /\ dpc = "idle"
    /\ probe = <<>>
    /\ dReadDeadline = NoDeadline
    /\ devs = <<>>
    /\ dErr = "nil"
    /\ dRet = noDiscoverResult
    /\ lastFrom = noDatagram
    /\ added = FALSE
    /\ dConns = {}

HandlesIdle ==
    /\ locking = FALSE
    /\ hDev = Devices0
    /\ callers = <<idleCaller(1), idleCaller(1)>>
    /\ hCalls = <<0, 0>>
    /\ lastUse = <<>>

ProductsIdle ==
    /\ ppc = "init"
    /\ heap = <<>>
    /\ heap0 = <<>>
    /\ file = <<>>
    /\ pArgs = noArgs
    /\ pRet = noProductResult
    /\ pFirst = noLayer

ZonesIdle ==
    /\ zCall = noZoneCall
    /\ zRet = noZoneResult

StateIdle ==
    /\ spc = "idle"
    /\ state = zeroState
    /\ sErr = "none"
    /\ restoreLog = <<>>

InitWith(pool) ==
    /\ CodecIdle
    /\ DiscoverIdle
    /\ HandlesIdle
    /\ ProductsIdle
    /\ ZonesIdle
    /\ StateIdle
    /\ clientSource = OurSource
    /\ dSeq \in InitSeqs
    /\ seq0 = dSeq
    /\ calls = 0
    /\ pc = "idle"
    /\ req = noRequest
    /\ seq = 0
    /\ msg = <<>>
    /\ ctxDeadline = NoDeadline
    /\ ctxErr = "nil"
    /\ ctxDoneAt = NoDeadline
    /\ now = 0
    /\ timeout = baseTimeout
    /\ readDeadline = NoDeadline
    /\ respHdr = zeroHeader
    /\ respBody = <<>>
    /\ result = noResult
    /\ attempts = 0
    /\ prevTimeout = 0
    /\ sent = {}
    /\ nSent = 0
    /\ rcvd = <<>>
    /\ lastErr = "nil"
    /\ conns = {}
    /\ ports = noPorts
    /\ lateRead = noLateRead
    /\ clientConnOpen = TRUE
    /\ startedClosed = FALSE
    /\ entryErr = "nil"
    /\ portPool = pool

\* A Device fresh from Discover, on a system that always hands out the same
\* port.
Init == InitWith(EphemeralPorts(1))

\* The same on a system with MaxPorts ports.
SocketInit == InitWith(EphemeralPorts(MaxPorts))

\* oneRPC up to its call of retry, and retry up to its loop, entered with one
\* of the contexts ctxs: the sequence number is taken and the counter
\* advanced, the request is encoded once, and timeout starts at baseTimeout.
\* Nothing on this path looks at the context.
CallWith(requests, maxCalls, ctxs) ==
    /\ pc \in {"idle", "done"}
    /\ calls < maxCalls
    /\ \E r \in requests, c \in ctxs :
          /\ req' = r
          /\ ctxDeadline' = c.deadline
          /\ ctxErr' = c.err
          /\ ctxDoneAt' = c.doneAt
          /\ now' = c.now
          /\ entryErr' = c.err
          /\ msg' = encodeMessage(requestHeader(clientSource, Serial, r, dSeq), r.reqBody)
    /\ seq' = dSeq
    /\ dSeq' = nextSeq(dSeq)
    /\ calls' = calls + 1
    /\ timeout' = baseTimeout
    /\ readDeadline' = NoDeadline
    /\ respHdr' = zeroHeader
    /\ respBody' = <<>>
    /\ result' = noResult
    /\ attempts' = 0
    /\ prevTimeout' = 0
    /\ sent' = {}
    /\ nSent' = 0
    /\ rcvd' = <<>>
    /\ lastErr' = "nil"
    /\ pc' = "attempt"
    /\ startedClosed' = ~clientConnOpen
    /\ ports' = noPorts
    /\ lateRead' = noLateRead
    /\ UNCHANGED <<awayVars, clientConnOpen, portPool, clientSource, seq0, conns>>

\* An exchange entered with a context that is not done.
CallOf(requests, maxCalls) == CallWith(requests, maxCalls, LiveContexts)

\* An exchange on the Device the long run of calls is made on.
Call == CallOf(Requests, MaxCalls) /\ UNCHANGED <<zoneVars, stateVars>>

\* AttemptEnds for a retry that would give up after its fifth attempt.
AttemptEndsGivingUp(err, ctxe) ==
    /\ lastErr' = err
    /\ IF ~retryableErr(err)
       THEN /\ pc' = "done"
            /\ result' = IF err # "nil"
                         THEN [payload |-> <<>>, err |-> err]
                         ELSE checkResponse(respHdr', respBody', clientSource,
                                            req.respType, seq)
            /\ UNCHANGED <<timeout, prevTimeout>>
       ELSE IF ctxe # "nil" \/ attempts >= 5
       THEN /\ pc' = "done"
            /\ result' = [payload |-> <<>>, err |-> IF ctxe # "nil" THEN ctxe ELSE err]
            /\ UNCHANGED <<timeout, prevTimeout>>
       ELSE /\ pc' = "attempt"
            /\ timeout' = backoff(timeout)
            /\ prevTimeout' = timeout
            /\ UNCHANGED result

\* retry after f(sub) returned err, with ctx.Err() reporting ctxe, and oneRPC
\* after retry returned: a failure that is not retryable, or success, ends the
\* loop; a retryable one ends it when the context is done, and otherwise
\* lengthens the timeout for the next attempt.
AttemptEnds(err, ctxe) ==
    /\ lastErr' = err
    /\ IF ~retryableErr(err)
       THEN /\ pc' = "done"
            /\ result' = IF err # "nil"
                         THEN [payload |-> <<>>, err |-> err]
                         ELSE checkResponse(respHdr', respBody', clientSource,
                                            req.respType, seq)
            /\ UNCHANGED <<timeout, prevTimeout>>
       ELSE IF ctxe # "nil"
       THEN /\ pc' = "done"
            /\ result' = [payload |-> <<>>, err |-> ctxe]
            /\ UNCHANGED <<timeout, prevTimeout>>
       ELSE /\ pc' = "attempt"
            /\ timeout' = backoff(timeout)
            /\ prevTimeout' = timeout
            /\ UNCHANGED result

\* StartAttempt for a retry that would look at ctx.Err() before every
\* attempt and return it without opening a socket.
StartAttemptCheckingContext ==
    /\ pc = "attempt"
    /\ attempts < MaxAttempts
    /\ IF ctxErr # "nil"
       THEN /\ pc' = "done"
            /\ result' = [payload |-> <<>>, err |-> ctxErr]
            /\ UNCHANGED <<attempts, readDeadline, respHdr, respBody, timeout,
                           prevTimeout, lastErr, sent, nSent, conns, ports>>
       ELSE /\ attempts' = attempts + 1
            /\ readDeadline' = WithTimeout(ctxDeadline, now, timeout)
            /\ \/ /\ respHdr' = respHdr
                  /\ respBody' = respBody
                  /\ AttemptEnds("listen", ctxErr)
                  /\ UNCHANGED <<sent, nSent, conns, ports>>
               \/ /\ respHdr' = respHdr
                  /\ respBody' = respBody
                  /\ AttemptEnds("send", ctxErr)
                  /\ \E p \in FreePorts :
                        /\ conns' = closeConn(conns \cup {newConn(p, attempts + 1)},
                                              attempts + 1)
                        /\ ports' = [prev |-> ports.cur, cur |-> p]
                  /\ UNCHANGED <<sent, nSent>>
               \/ /\ sent' = sent \cup {attemptDatagram(msg, clientSource, Serial, req, dSeq)}
                  /\ nSent' = nSent + 1
                  /\ pc' = "waiting"
                  /\ \E p \in FreePorts :
                        /\ conns' = conns \cup {newConn(p, attempts + 1)}
                        /\ ports' = [prev |-> ports.cur, cur |-> p]
                  /\ UNCHANGED <<respHdr, respBody, result, timeout, prevTimeout,
                                 lastErr>>
    /\ UNCHANGED <<farVars, sessionVars, ctxVars, clientSource, dSeq, req, seq, msg, seq0,
                   calls, rcvd, lateRead>>

\* An attempt starts: sub gets its deadline, udpConn opens a socket on a free
\* port and sets the read deadline, and the request is written.
\* net.ListenUDP may fail, and then there is no socket; WriteToUDP may fail,
\* and then the deferred Close closes the socket as the attempt ends;
\* otherwise the attempt blocks in ReadFrom with its socket open.
StartAttempt ==
    /\ pc = "attempt"
    /\ attempts < MaxAttempts
    /\ attempts' = attempts + 1
    /\ readDeadline' = WithTimeout(ctxDeadline, now, timeout)
    /\ \/ /\ respHdr' = respHdr
          /\ respBody' = respBody
          /\ AttemptEnds("listen", ctxErr)
          /\ UNCHANGED <<sent, nSent, conns, ports>>
       \/ /\ respHdr' = respHdr
          /\ respBody' = respBody
          /\ AttemptEnds("send", ctxErr)
          /\ \E p \in FreePorts :
                /\ conns' = closeConn(conns \cup {newConn(p, attempts + 1)},
                                      attempts + 1)
                /\ ports' = [prev |-> ports.cur, cur |-> p]
          /\ UNCHANGED <<sent, nSent>>
       \/ /\ sent' = sent \cup {attemptDatagram(msg, clientSource, Serial, req, dSeq)}
          /\ nSent' = nSent + 1
          /\ pc' = "waiting"
          /\ \E p \in FreePorts :
                /\ conns' = conns \cup {newConn(p, attempts + 1)}
                /\ ports' = [prev |-> ports.cur, cur |-> p]
          /\ UNCHANGED <<respHdr, respBody, result, timeout, prevTimeout, lastErr>>
    /\ UNCHANGED <<farVars, sessionVars, ctxVars, clientSource, dSeq, req, seq, msg, seq0,
                   calls, rcvd, lateRead>>

\* A datagram arrives before the read deadline: readOnePacket decodes it.
RecvDatagram ==
    /\ pc = "waiting"
    /\ now < readDeadline
    /\ \E b \in Responses :
          LET d == decodeMessage(b)
          IN  /\ rcvd' = Append(rcvd, b)
              /\ respHdr' = d.hdr
              /\ respBody' = d.payload
              /\ AttemptEnds(IF d.err # "nil" THEN "decode" ELSE "nil", ctxErr)
    /\ conns' = closeConn(conns, attempts)
    /\ UNCHANGED <<farVars, sessionVars, ctxVars, clientSource, dSeq, req, seq, msg,
                   readDeadline, seq0, calls, attempts, sent, nSent, ports, lateRead>>

\* ReadFrom fails with an error that is not a timeout.
ReadFails ==
    /\ pc = "waiting"
    /\ respHdr' = zeroHeader
    /\ respBody' = <<>>
    /\ AttemptEnds("read", ctxErr)
    /\ conns' = closeConn(conns, attempts)
    /\ UNCHANGED <<farVars, sessionVars, ctxVars, clientSource, dSeq, req, seq, msg,
                   readDeadline, seq0, calls, attempts, sent, nSent, rcvd, ports,
                   lateRead>>

\* Nothing arrives: ReadFrom returns a timeout error at the read deadline
\* (at once when the deadline has passed already). When the caller's deadline
\* is due at that instant and its timer has not yet run, ctx.Err() may still
\* be nil.
ReadTimeout ==
    /\ pc = "waiting"
    /\ now' = Max(now, readDeadline)
    /\ respHdr' = zeroHeader
    /\ respBody' = <<>>
    /\ \/ /\ AttemptEnds("timeout", ctxErr)
          /\ UNCHANGED <<ctxErr, ctxDoneAt>>
       \/ /\ ctxErr = "nil"
          /\ ctxDeadline # NoDeadline
          /\ now' >= ctxDeadline
          /\ ctxErr' = "DeadlineExceeded"
          /\ ctxDoneAt' = ctxDeadline
          /\ AttemptEnds("timeout", "DeadlineExceeded")
    /\ conns' = closeConn(conns, attempts)
    /\ UNCHANGED <<farVars, sessionVars, ctxDeadline, clientSource, dSeq, req, seq, msg,
                   readDeadline, seq0, calls, attempts, sent, nSent, rcvd, ports,
                   lateRead>>

\* The caller cancels the context while the exchange is in progress.
Cancel ==
    /\ pc \in {"attempt", "waiting"}
    /\ ctxErr = "nil"
    /\ ctxErr' = "Canceled"
    /\ ctxDoneAt' = now
    /\ UNCHANGED <<farVars, sessionVars, ctxDeadline, now, rpcVars>>

\* The timer of the caller's deadline runs after the attempt that reached the
\* deadline has already gone on.
DeadlineFires ==
    /\ pc \in {"attempt", "waiting"}
    /\ ctxErr = "nil"
    /\ ctxDeadline # NoDeadline
    /\ now >= ctxDeadline
    /\ ctxErr' = "DeadlineExceeded"
    /\ ctxDoneAt' = ctxDeadline
    /\ UNCHANGED <<farVars, sessionVars, ctxDeadline, now, rpcVars>>

Next ==
    \/ Call
    \/ StartAttempt
    \/ RecvDatagram
    \/ ReadFails
    \/ ReadTimeout
    \/ Cancel
    \/ DeadlineFires

Spec == Init /\ [][Next]_vars

----------------------------------------------------------------------------
\* A short session on a Client: a few exchanges of every kind on a Device,
\* and Close at any moment.

SessionCall ==
    CallOf(SessionRequests, MaxSessionCalls) /\ UNCHANGED <<zoneVars, stateVars>>

\* c.Close(): the Client's socket is closed.
Close ==
    /\ clientConnOpen
    /\ clientConnOpen' = FALSE
    /\ UNCHANGED <<farVars, startedClosed, entryErr, portPool, ctxVars, rpcVars>>

SessionNext ==
    \/ SessionCall
    \/ Close
    \/ StartAttempt
    \/ RecvDatagram
    \/ ReadFails
    \/ ReadTimeout
    \/ Cancel
    \/ DeadlineFires

SessionSpec == Init /\ [][SessionNext]_vars

----------------------------------------------------------------------------
\* Exchanges entered with any context, done ones included.

EntryCall ==
    /\ CallWith(Requests, MaxEntryCalls, LiveContexts \cup DoneContexts)
    /\ UNCHANGED <<zoneVars, stateVars>>

EntryNext ==
    \/ EntryCall
    \/ StartAttempt
    \/ RecvDatagram
    \/ ReadFails
    \/ ReadTimeout
    \/ Cancel
    \/ DeadlineFires

EntrySpec == Init /\ [][EntryNext]_vars

----------------------------------------------------------------------------
\* The codec harness: encodeMessage on an enumerated header and payload, at
\* most one change to the bytes, then decodeMessage.

RpcIdle ==
    /\ clientSource = OurSource
    /\ dSeq = 0
    /\ seq0 = 0
    /\ calls = 0
    /\ pc = "idle"
    /\ req = noRequest
    /\ seq = 0
    /\ msg = <<>>
    /\ ctxDeadline = NoDeadline
    /\ ctxErr = "nil"
    /\ ctxDoneAt = NoDeadline
    /\ now = 0
    /\ timeout = baseTimeout
    /\ readDeadline = NoDeadline
    /\ respHdr = zeroHeader
    /\ respBody = <<>>
    /\ result = noResult
    /\ attempts = 0
    /\ prevTimeout = 0
    /\ sent = {}
    /\ nSent = 0
    /\ rcvd = <<>>
    /\ lastErr = "nil"
    /\ conns = {}
    /\ ports = noPorts
    /\ lateRead = noLateRead
    /\ clientConnOpen = TRUE
    /\ startedClosed = FALSE
    /\ entryErr = "nil"
    /\ portPool = EphemeralPorts(1)

CodecInit ==
    /\ RpcIdle
    /\ CodecIdle
    /\ DiscoverIdle
    /\ HandlesIdle
    /\ ProductsIdle
    /\ ZonesIdle
    /\ StateIdle

\* A header and a payload are chosen and encoded:
\* msg := encodeMessage(hdr, payload)
Encode ==
    /\ cpc = "init"
    /\ \E in \in [hdr : CodecHeaders, payload : SmallPayloads]
                  \cup [hdr : {h \in CodecHeaders : h.source = OurSource /\ h.sequence = 0
                                                    /\ h.typ = 2 /\ ~h.tagged
                                                    /\ h.target # zeroTarget},
                        payload : BigPayloads] :
          /\ encIn' = in
          /\ buf' = encodeMessage(in.hdr, in.payload)
    /\ cpc' = "encoded"
    /\ UNCHANGED <<damaged, dec, outsideCodec>>

\* The network hands over a buffer that differs from what was encoded in one
\* byte.
Overwrite ==
    /\ cpc = "encoded"
    /\ ~damaged
    /\ Len(buf) <= 36 + MaxPayloadLen
    /\ \E i \in DamageOffsets, v \in PayloadBytes :
          /\ i <= Len(buf)
          /\ buf[i] # v
          /\ buf' = [buf EXCEPT ![i] = v]
    /\ damaged' = TRUE
    /\ UNCHANGED <<cpc, encIn, dec, outsideCodec>>

\* The network hands over a shortened buffer.
Truncate ==
    /\ cpc = "encoded"
    /\ ~damaged
    /\ Len(buf) <= 36 + MaxPayloadLen
    /\ \E n \in {0, 1, 35, 36, Len(buf) - 1} :
          /\ n < Len(buf)
          /\ buf' = SubSeq(buf, 1, n)
    /\ damaged' = TRUE
    /\ UNCHANGED <<cpc, encIn, dec, outsideCodec>>

\* The network hands over a lengthened buffer.
Extend ==
    /\ cpc = "encoded"
    /\ ~damaged
    /\ Len(buf) <= 36 + MaxPayloadLen
    /\ \E v \in PayloadBytes : buf' = Append(buf, v)
    /\ damaged' = TRUE
    /\ UNCHANGED <<cpc, encIn, dec, outsideCodec>>

\* hdr, payload, err = decodeMessage(b)
Decode ==
    /\ cpc = "encoded"
    /\ dec' = decodeMessage(buf)
    /\ cpc' = "decoded"
    /\ UNCHANGED <<encIn, buf, damaged, outsideCodec>>

CodecNext == Encode \/ Overwrite \/ Truncate \/ Extend \/ Decode

CodecSpec == CodecInit /\ [][CodecNext]_vars

----------------------------------------------------------------------------
\* Discover: the probe is broadcast, then datagrams are read until the read
\* deadline.

DiscoverInit ==
    /\ RpcIdle
    /\ CodecIdle
    /\ DiscoverIdle
    /\ HandlesIdle
    /\ ProductsIdle
    /\ ZonesIdle
    /\ StateIdle

\* Discover up to its loop: udpConn opens the socket and gives it the
\* context's deadline, if it has one, as read deadline; the probe is encoded
\* and written to 255.255.255.255:56700. net.ListenUDP or WriteToUDP may
\* fail.
DiscoverCall ==
    /\ dpc = "idle"
    /\ \E dl \in DiscoverDeadlines :
          /\ ctxDeadline' = dl
          /\ \/ /\ dpc' = "done"
                /\ dErr' = "listen"
                /\ dRet' = [devs |-> <<>>, err |-> "listen"]
                /\ UNCHANGED <<probe, dReadDeadline, dConns>>
             \/ /\ dpc' = "done"
                /\ probe' = encodeMessage(probeHeader, <<>>)
                /\ dReadDeadline' = dl
                /\ dErr' = "send"
                /\ dRet' = [devs |-> <<>>, err |-> "send"]
                /\ \E p \in FreePorts :
                      dConns' = closeConn(dConns \cup {newConn(p, 0)}, 0)
             \/ /\ dpc' = "receiving"
                /\ probe' = encodeMessage(probeHeader, <<>>)
                /\ dReadDeadline' = dl
                /\ \E p \in FreePorts : dConns' = dConns \cup {newConn(p, 0)}
                /\ UNCHANGED <<dErr, dRet>>
    /\ UNCHANGED <<outsideDiscover, ctxErr, ctxDoneAt, now, devs, lastFrom, added>>

\* One turn of the loop on a datagram that arrived before the read deadline:
\* it is decoded and tested, and a Device is appended or the datagram is
\* passed over.
DiscoverRecv ==
    /\ dpc = "receiving"
    /\ dReadDeadline = NoDeadline \/ now < dReadDeadline
    /\ \E b \in Replies, raddr \in Senders :
          LET d == decodeMessage(b)
          IN  /\ lastFrom' = [b |-> b, raddr |-> raddr]
              /\ IF acceptsReply(d)
                 THEN /\ Len(devs) < MaxDevs
                      /\ devs' = Append(devs, newDevice(raddr, d.hdr, d.payload))
                      /\ added' = TRUE
                 ELSE /\ devs' = devs
                      /\ added' = FALSE
    /\ UNCHANGED <<outsideDiscover, ctxVars, dpc, probe, dReadDeadline, dErr, dRet,
                   dConns>>

\* ReadFrom fails with an error that is not a timeout.
DiscoverReadFails ==
    /\ dpc = "receiving"
    /\ dErr' = "read"
    /\ dRet' = readFailed(devs)
    /\ dpc' = "done"
    /\ dConns' = closeConn(dConns, 0)
    /\ UNCHANGED <<outsideDiscover, ctxVars, probe, dReadDeadline, devs, lastFrom, added>>

\* Nothing more arrives: ReadFrom returns a timeout error at the read
\* deadline, which is the deadline of the context, and the loop is left.
DiscoverReadTimeout ==
    /\ dpc = "receiving"
    /\ dReadDeadline # NoDeadline
    /\ now' = Max(now, dReadDeadline)
    /\ IF ctxErr = "nil"
       THEN /\ ctxErr' = "DeadlineExceeded"
            /\ ctxDoneAt' = ctxDeadline
       ELSE UNCHANGED <<ctxErr, ctxDoneAt>>
    /\ dErr' = "timeout"
    /\ dRet' = [devs |-> devs, err |-> "nil"]
    /\ dpc' = "done"
    /\ dConns' = closeConn(dConns, 0)
    /\ UNCHANGED <<outsideDiscover, ctxDeadline, probe, dReadDeadline, devs, lastFrom, added>>

\* The caller cancels the context while Discover is in its loop.
DiscoverCancel ==
    /\ dpc = "receiving"
    /\ ctxErr = "nil"
    /\ ctxErr' = "Canceled"
    /\ ctxDoneAt' = now
    /\ UNCHANGED <<outsideDiscover, ctxDeadline, now, discVars>>

DiscoverNext ==
    \/ DiscoverCall
    \/ DiscoverRecv
    \/ DiscoverReadFails
    \/ DiscoverReadTimeout
    \/ DiscoverCancel

DiscoverSpec == DiscoverInit /\ [][DiscoverNext]_vars

----------------------------------------------------------------------------
\* The sockets of an exchange and of Discover, on a system with more than
\* one port to hand out. Either an exchange or a Discover is run.

SocketCall ==
    /\ dpc = "idle"
    /\ CallWith(Requests, MaxSocketCalls, SocketContexts)
    /\ UNCHANGED <<zoneVars, stateVars>>

SocketDiscover ==
    /\ pc = "idle"
    /\ DiscoverCall

SocketDiscoverRecv ==
    /\ Len(devs) < MaxSocketDevs
    /\ DiscoverRecv

\* The device's answer to the request of the previous attempt arrives while
\* the next attempt blocks in ReadFrom. It is addressed to the port the
\* request of the previous attempt came from, and the socket bound to that
\* port gets it: readOnePacket of the attempt in progress returns it when
\* that socket is its own.
LateReply ==
    /\ pc = "waiting"
    /\ now < readDeadline
    /\ attempts >= 2
    /\ \E c \in conns :
          /\ c.port = ports.prev
          /\ c.by = attempts
          /\ lateRead' = [of |-> attempts - 1, by |-> c.by]
    /\ \E b \in Responses :
          LET d == decodeMessage(b)
          IN  /\ rcvd' = Append(rcvd, b)
              /\ respHdr' = d.hdr
              /\ respBody' = d.payload
              /\ AttemptEnds(IF d.err # "nil" THEN "decode" ELSE "nil", ctxErr)
    /\ conns' = closeConn(conns, attempts)
    /\ UNCHANGED <<farVars, sessionVars, ctxVars, clientSource, dSeq, req, seq, msg,
                   readDeadline, seq0, calls, attempts, sent, nSent, ports>>

SocketNext ==
    \/ SocketCall
    \/ StartAttempt
    \/ RecvDatagram
    \/ LateReply
    \/ ReadFails
    \/ ReadTimeout
    \/ Cancel
    \/ DeadlineFires
    \/ SocketDiscover
    \/ SocketDiscoverRecv
    \/ DiscoverReadFails
    \/ DiscoverReadTimeout
    \/ DiscoverCancel

SocketSpec == SocketInit /\ [][SocketNext]_vars

----------------------------------------------------------------------------
\* Two Device handles and two callers. Each caller runs oneRPC on its handle
\* again and again; the statements of oneRPC that touch the Device are steps
\* of their own, so that the steps of two callers interleave. The callers
\* either serialize their exchanges on a handle with a lock of their own, or
\* they do not.

HandlesInit ==
    /\ RpcIdle
    /\ CodecIdle
    /\ DiscoverIdle
    /\ ProductsIdle
    /\ ZonesIdle
    /\ StateIdle
    /\ locking \in BOOLEAN
    /\ hDev = Devices0
    /\ \E h1 \in Handles, h2 \in Handles :
          /\ locking => h1 = h2
          /\ callers = <<idleCaller(h1), idleCaller(h2)>>
    /\ hCalls = <<0, 0>>
    /\ lastUse = [h \in Handles |-> [s \in 0..255 |-> 0]]

\* seq := d.seq
ReadSeq(c) ==
    LET h == callers[c].h
        s == hDev[seqCell(h)].seq
    IN  /\ callers[c].pc = "idle"
        /\ hCalls[h] < (IF locking THEN MaxCalls ELSE MaxRacingCalls)
        /\ locking => \A o \in Callers \ {c} :
                          callers[o].h = h => callers[o].pc = "idle"
        /\ callers' = [callers EXCEPT ![c] =
                          [@ EXCEPT !.pc = "seqRead", !.seq = s,
                                    !.idx = hCalls[h] + 1,
                                    !.prev = lastUse[h][s]]]
        /\ hCalls' = [hCalls EXCEPT ![h] = @ + 1]
        /\ lastUse' = [lastUse EXCEPT ![h][s] = hCalls[h] + 1]
        /\ UNCHANGED <<outsideHandles, locking, hDev>>

\* d.seq++, the read: nothing makes the increment atomic.
LoadSeq(c) ==
    LET h == callers[c].h
    IN  /\ callers[c].pc = "seqRead"
        /\ callers' = [callers EXCEPT ![c] =
                          [@ EXCEPT !.pc = "loaded", !.tmp = hDev[seqCell(h)].seq]]
        /\ UNCHANGED <<outsideHandles, locking, hDev, hCalls, lastUse>>

\* d.seq++, the write; then the header is filled in and the request encoded.
StoreSeq(c) ==
    LET h == callers[c].h
    IN  /\ callers[c].pc = "loaded"
        /\ hDev' = [hDev EXCEPT ![seqCell(h)].seq = nextSeq(callers[c].tmp)]
        /\ \E r \in Requests :
              callers' = [callers EXCEPT ![c] =
                  [@ EXCEPT !.pc = "encoded",
                            !.msg = encodeMessage(
                                requestHeader(OurSource, hDev[h].Serial, r, callers[c].seq),
                                r.reqBody)]]
        /\ UNCHANGED <<outsideHandles, locking, hCalls, lastUse>>

\* retry and the checks after it: they work on msg, on sockets of their own
\* and on the reply, read d.Addr and d.client.source, and write no field of
\* the Device. oneRPC returns.
Exchange(c) ==
    /\ callers[c].pc = "encoded"
    /\ callers' = [callers EXCEPT ![c] = idleCaller(callers[c].h)]
    /\ UNCHANGED <<outsideHandles, locking, hDev, hCalls, lastUse>>

HandlesNext ==
    \E c \in Callers :
        \/ ReadSeq(c)
        \/ LoadSeq(c)
        \/ StoreSeq(c)
        \/ Exchange(c)

HandlesSpec == HandlesInit /\ [][HandlesNext]_vars

----------------------------------------------------------------------------
\* DetermineProduct on a decoded catalog: a call, a change the caller makes
\* to the Features it was given, and a second call with the same arguments.

ProductsInit ==
    /\ RpcIdle
    /\ CodecIdle
    /\ DiscoverIdle
    /\ HandlesIdle
    /\ ZonesIdle
    /\ StateIdle
    /\ ppc = "init"
    /\ \E d \in DefaultsChoices, f \in FeaturesChoices,
          u1 \in FirstUpgradeChoices, u2 \in SecondUpgradeChoices :
          /\ heap = decodeCatalog(d, f, u1, u2).heap
          /\ file = decodeCatalog(d, f, u1, u2).file
    /\ heap0 = heap
    /\ pArgs = noArgs
    /\ pRet = noProductResult
    /\ pFirst = noLayer

\* p, err := DetermineProduct(file, vendorID, productID, firmwareVersion)
Determine ==
    /\ ppc = "init"
    /\ \E v \in VendorIDs, p \in ProductIDs, fw \in Firmwares :
          LET r == DetermineProduct(heap, file, v, p, fw)
          IN  /\ pArgs' = [vendorID |-> v, productID |-> p, fw |-> fw]
              /\ pRet' = r
              /\ heap' = r.heap
              /\ pFirst' = capsValue(r.heap, r.product.Features)
              /\ ppc' = IF r.panic THEN "panicked" ELSE "called"
    /\ UNCHANGED <<outsideProducts, heap0, file>>

\* The caller writes through a pointer of the Features it was given, or into
\* its TemperatureRange.
ChangeResult ==
    /\ ppc = "called"
    /\ pRet.err = "nil"
    /\ \E f \in DOMAIN nilCaps :
          LET a == pRet.product.Features[f]
          IN  /\ a # 0
              /\ heap' = [heap EXCEPT ![a] = IF f = "TemperatureRange"
                                             THEN [@ EXCEPT ![1] = 0]
                                             ELSE ~@]
    /\ ppc' = "changed"
    /\ UNCHANGED <<outsideProducts, heap0, file, pArgs, pRet, pFirst>>

\* DetermineProduct again, with the arguments of the first call.
DetermineAgain ==
    /\ ppc \in {"called", "changed"}
    /\ LET r == DetermineProduct(heap, file, pArgs.vendorID, pArgs.productID, pArgs.fw)
       IN  /\ pRet' = r
           /\ heap' = r.heap
    /\ ppc' = "again"
    /\ UNCHANGED <<outsideProducts, heap0, file, pArgs, pFirst>>

ProductsNext == Determine \/ ChangeResult \/ DetermineAgain

ProductsSpec == ProductsInit /\ [][ProductsNext]_vars

----------------------------------------------------------------------------
\* The calls that build a payload or parse one, each on top of an exchange:
\* SetExtendedColorZones, GetExtendedColorZones, SetLightPower, SetWaveform.

\* No call is in progress and another may be made.
ApiReady ==
    /\ pc \in {"idle", "done"}
    /\ zRet.err # "pending"
    /\ zCall.n < MaxZoneCalls

\* The call returns r.err at once, or hands r.req to oneRPC.
ApiCall(call, r) ==
    /\ zCall' = [call EXCEPT !.n = zCall.n + 1]
    /\ UNCHANGED stateVars
    /\ IF r.err # "nil"
       THEN /\ zRet' = [zones |-> <<>>, err |-> r.err]
            /\ UNCHANGED <<awayVars, ctxVars, rpcVars, sessionVars>>
       ELSE /\ zRet' = [zones |-> <<>>, err |-> "pending"]
            /\ CallOf({r.req}, MaxZoneCalls)

\* d.SetExtendedColorZones(ctx, duration, zones)
SetExtendedColorZones ==
    /\ ApiReady
    /\ \E a \in ZoneSettings :
          ApiCall([noZoneCall EXCEPT !.op = "SetExtendedColorZones",
                                     !.duration = a.duration, !.zones = a.zones],
                  setExtendedColorZonesRequest(a.duration, a.zones))

\* d.GetExtendedColorZones(ctx)
GetExtendedColorZones ==
    /\ ApiReady
    /\ ApiCall([noZoneCall EXCEPT !.op = "GetExtendedColorZones"],
               [err |-> "nil",
                req |-> query(pktGetExtendedColorZones, pktStateExtendedColorZones, <<>>)])

\* d.SetLightPower(ctx, level, duration)
SetLightPower ==
    /\ ApiReady
    /\ \E level \in Levels, duration \in FewDurations :
          ApiCall([noZoneCall EXCEPT !.op = "SetLightPower",
                                     !.duration = duration, !.level = level],
                  setLightPowerRequest(level, duration))

\* d.SetWaveform(ctx, cfg)
SetWaveform ==
    /\ ApiReady
    /\ \E cfg \in WaveformConfigs :
          ApiCall([noZoneCall EXCEPT !.op = "SetWaveform",
                                     !.duration = cfg.Period, !.cfg = cfg],
                  setWaveformRequest(cfg))

\* oneRPC has returned: d.set hands on the error, and GetExtendedColorZones
\* goes on with what d.query handed back.
ApiReturn ==
    /\ pc = "done"
    /\ zRet.err = "pending"
    /\ zRet' = IF zCall.op = "GetExtendedColorZones"
               THEN stateExtendedColorZones(returned(req, result))
               ELSE [zones |-> <<>>, err |-> returned(req, result).err]
    /\ UNCHANGED <<awayVars, stateVars, ctxVars, rpcVars, sessionVars, zCall>>

ZonesNext ==
    \/ SetExtendedColorZones
    \/ GetExtendedColorZones
    \/ SetLightPower
    \/ SetWaveform
    \/ ApiReturn
    \/ StartAttempt
    \/ RecvDatagram
    \/ ReadFails
    \/ ReadTimeout
    \/ Cancel
    \/ DeadlineFires

ZonesSpec == Init /\ [][ZonesNext]_vars

----------------------------------------------------------------------------
\* CaptureState and, with the State it returned, RestoreState: two exchanges
\* each, under one context.

\* The context of a later exchange is the context of the one before: with no
\* deadline if that had none, and otherwise with no more time left.
SameContext ==
    IF ctxDeadline = NoDeadline
    THEN ctxDeadline' = NoDeadline
    ELSE ctxDeadline' # NoDeadline /\ ctxDeadline' <= ctxDeadline

\* d.CaptureState(ctx) up to the exchange of GetLightPower.
CaptureState ==
    /\ spc = "idle"
    /\ CallOf({query(pktGetLightPower, pktStateLightPower, <<>>)}, MaxStateCalls)
    /\ spc' = "GetLightPower"
    /\ UNCHANGED <<zoneVars, state, sErr, restoreLog>>

\* GetLightPower has its answer: CaptureState returns its error, or keeps
\* the level and goes on to the exchange of GetExtendedColorZones.
CapturePower ==
    /\ spc = "GetLightPower"
    /\ pc = "done"
    /\ LET r == stateLightPower(returned(req, result))
       IN  /\ state' = [state EXCEPT !.power = r.power]
           /\ IF r.err # "nil"
              THEN /\ spc' = "captureFailed"
                   /\ sErr' = r.err
                   /\ UNCHANGED <<awayVars, ctxVars, rpcVars, sessionVars>>
              ELSE /\ spc' = "GetExtendedColorZones"
                   /\ sErr' = sErr
                   /\ CallOf({query(pktGetExtendedColorZones,
                                    pktStateExtendedColorZones, <<>>)}, MaxStateCalls)
                   /\ SameContext
    /\ UNCHANGED <<zoneVars, restoreLog>>

\* GetExtendedColorZones has its answer: CaptureState returns.
CaptureZones ==
    /\ spc = "GetExtendedColorZones"
    /\ pc = "done"
    /\ LET r == stateExtendedColorZones(returned(req, result))
       IN  /\ state' = [state EXCEPT !.zones = r.zones]
           /\ sErr' = r.err
           /\ spc' = IF r.err # "nil" THEN "captureFailed" ELSE "captured"
    /\ UNCHANGED <<awayVars, zoneVars, restoreLog, ctxVars, rpcVars, sessionVars>>

\* d.RestoreState(ctx, state) with the State CaptureState returned, up to the
\* exchange of SetExtendedColorZones(ctx, 0, state.zones).
RestoreState ==
    /\ spc = "captured"
    /\ LET r == setExtendedColorZonesRequest(noZoneCall.duration, state.zones)
       IN  IF r.err # "nil"
           THEN /\ spc' = "restoreFailed"
                /\ sErr' = r.err
                /\ UNCHANGED <<awayVars, ctxVars, rpcVars, sessionVars>>
           ELSE /\ spc' = "SetExtendedColorZones"
                /\ sErr' = sErr
                /\ CallOf({r.req}, MaxStateCalls)
                /\ SameContext
    /\ UNCHANGED <<zoneVars, state, restoreLog>>

\* SetExtendedColorZones has returned: RestoreState returns its error, or
\* goes on to the exchange of SetLightPower(ctx, state.power, 0).
RestoreZones ==
    /\ spc = "SetExtendedColorZones"
    /\ pc = "done"
    /\ restoreLog' = Append(restoreLog, [req |-> req, err |-> returned(req, result).err])
    /\ LET r == setLightPowerRequest(state.power, noZoneCall.duration)
       IN  IF returned(req, result).err # "nil" \/ r.err # "nil"
           THEN /\ spc' = "restoreFailed"
                /\ sErr' = IF returned(req, result).err # "nil"
                           THEN returned(req, result).err ELSE r.err
                /\ UNCHANGED <<awayVars, ctxVars, rpcVars, sessionVars>>
           ELSE /\ spc' = "SetLightPower"
                /\ sErr' = sErr
                /\ CallOf({r.req}, MaxStateCalls)
                /\ SameContext
    /\ UNCHANGED <<zoneVars, state>>

\* SetLightPower has returned: RestoreState returns.
RestorePower ==
    /\ spc = "SetLightPower"
    /\ pc = "done"
    /\ restoreLog' = Append(restoreLog, [req |-> req, err |-> returned(req, result).err])
    /\ sErr' = returned(req, result).err
    /\ spc' = IF returned(req, result).err # "nil" THEN "restoreFailed" ELSE "restored"
    /\ UNCHANGED <<awayVars, zoneVars, state, ctxVars, rpcVars, sessionVars>>

StateNext ==
    \/ CaptureState
    \/ CapturePower
    \/ CaptureZones
    \/ RestoreState
    \/ RestoreZones
    \/ RestorePower
    \/ StartAttempt
    \/ RecvDatagram
    \/ ReadFails
    \/ ReadTimeout
    \/ Cancel
    \/ DeadlineFires

StateSpec == Init /\ [][StateNext]_vars

----------------------------------------------------------------------------
\* Properties of the exchange, checked under Spec.

\* The first datagram the exchange read, and what its bytes say.
FirstRcvd == rcvd[1]

RcvdWellFormed ==
    /\ Len(FirstRcvd) >= 36
    /\ Uint16At(FirstRcvd, 1) = Len(FirstRcvd)

RcvdMatches ==
    /\ RcvdWellFormed
    /\ Uint32At(FirstRcvd, 5) = clientSource
    /\ Uint16At(FirstRcvd, 33) = req.respType
    /\ FirstRcvd[24] = seq

\* C1: oneRPC returns a payload only if the datagram it read carries the
\* client's source, the expected type and the sequence number of this
\* exchange, all three; a datagram that differs in any of them makes it return
\* an error and no payload; and the first datagram read ends the exchange, so
\* nothing is sent after it.
C1_PayloadOnlyOnFullMatch ==
    /\ Len(rcvd) <= 1
    /\ (Len(rcvd) = 1 => pc = "done")
    /\ (pc = "done" /\ result.err = "nil" =>
          /\ Len(rcvd) = 1
          /\ RcvdMatches
          /\ result.payload = SubSeq(FirstRcvd, 37, Len(FirstRcvd)))
    /\ (pc = "done" /\ Len(rcvd) = 1 /\ ~RcvdMatches =>
          /\ result.err \in {"decode", "source", "type", "seq"}
          /\ result.payload = <<>>)

\* A reply to a retried request that agrees in source and type and carries the
\* previous sequence number is refused.
C1_Witness ==
    /\ pc = "done"
    /\ attempts >= 2
    /\ Len(rcvd) = 1
    /\ RcvdWellFormed
    /\ Uint32At(FirstRcvd, 5) = clientSource
    /\ Uint16At(FirstRcvd, 33) = req.respType
    /\ FirstRcvd[24] # seq
    /\ result.err = "seq"

\* C2: with a deadline on the caller's context and a device that never
\* replies, no read deadline lies past the caller's deadline and the clock of
\* the exchange never passes it; the exchange ends with the context's
\* DeadlineExceeded at the deadline, after more than one attempt when the
\* deadline is longer than the first timeout.
C2_TimeoutWithinDeadline ==
    ctxDeadline # NoDeadline =>
        /\ now <= ctxDeadline
        /\ (pc = "waiting" => readDeadline <= ctxDeadline)
        /\ (pc = "done" /\ lastErr = "timeout" /\ ctxErr # "Canceled" =>
              /\ rcvd = <<>>
              /\ result = [payload |-> <<>>, err |-> "DeadlineExceeded"]
              /\ now = ctxDeadline
              /\ (ctxDeadline > baseTimeout => attempts >= 2))

\* Deadline 1s: attempts of 300ms, 450ms and the 250ms that are left.
C2_Witness ==
    /\ pc = "done"
    /\ ctxDeadline = 1 * Second
    /\ attempts = 3
    /\ nSent = 3
    /\ rcvd = <<>>
    /\ now = ctxDeadline
    /\ result.err = "DeadlineExceeded"

\* C3: the n-th oneRPC call on a Device carries sequence number
\* (s + n - 1) mod 256, in its encoded request and in every datagram it sends,
\* and leaves the counter at (s + n) mod 256, whatever the outcome of the
\* calls and however many attempts they made.
C3_SequencePerCall ==
    /\ dSeq = (seq0 + calls) % 256
    /\ (pc # "idle" =>
          /\ seq = (seq0 + calls - 1) % 256
          /\ msg[24] = seq
          /\ \A m \in sent : m[24] = seq)

\* The 257th call, after a retry, carries the sequence number of the 1st.
C3_Witness ==
    /\ calls = 257
    /\ seq = seq0
    /\ attempts >= 2
    /\ nSent >= 2
    /\ pc = "done"

\* C4: every datagram the attempts of one exchange send is the request as
\* encoded before the first attempt, with the sequence number of the
\* exchange, and the counter stays one past that number during the exchange.
C4_RetriesResendSameBytes ==
    pc # "idle" =>
        /\ msg = encodeMessage(requestHeader(clientSource, Serial, req, seq), req.reqBody)
        /\ sent \subseteq {msg}
        /\ dSeq = (seq + 1) % 256

C4_Witness ==
    /\ nSent >= 3
    /\ sent = {msg}
    /\ pc = "waiting"

\* C5: an attempt that ends with a failure other than a timeout ends the
\* exchange with that error and no payload; the loop goes on to another
\* attempt only after a timeout.
C5_OnlyTimeoutsRetried ==
    /\ (lastErr \notin {"nil", "timeout"} =>
          /\ pc = "done"
          /\ result = [payload |-> <<>>, err |-> lastErr])
    /\ (pc \in {"attempt", "waiting"} /\ attempts >= 1 /\ ~(pc = "waiting" /\ attempts = 1) =>
          lastErr = "timeout")

\* A malformed datagram read on a retry ends the exchange.
C5_Witness ==
    /\ pc = "done"
    /\ attempts >= 2
    /\ lastErr = "decode"
    /\ Len(rcvd) = 1
    /\ nSent = attempts

\* C6: the first attempt runs with 300ms; each later one with one and a half
\* times the previous timeout, or 10s when that is more: longer than the
\* previous one while that was below 10s, 10s from then on, never more.
C6_Backoff ==
    pc # "idle" =>
        /\ timeout <= maxTimeout
        /\ (attempts = 0 \/ (attempts = 1 /\ pc = "waiting") => timeout = 300 * Millisecond)
        /\ (prevTimeout = 0 => timeout = 300 * Millisecond)
        /\ (prevTimeout # 0 =>
              /\ (3 * prevTimeout <= 2 * 10 * Second => 2 * timeout = 3 * prevTimeout)
              /\ (3 * prevTimeout > 2 * 10 * Second => timeout = 10 * Second)
              /\ (prevTimeout < 10 * Second => timeout > prevTimeout)
              /\ (prevTimeout = 10 * Second => timeout = 10 * Second))

\* The timeout has reached 10s and the next attempt runs with 10s again.
C6_Witness ==
    /\ pc = "waiting"
    /\ prevTimeout = 10 * Second
    /\ timeout = 10 * Second

\* C7: an exchange that ends with the error of the caller's context ends at
\* the instant the context was cancelled or its deadline was due, not at the
\* end of the timeout of the attempt in progress.
C7_ReturnsWhenContextDone ==
    pc = "done" /\ ctxErr # "nil" /\ result.err = ctxErr => now = ctxDoneAt

----------------------------------------------------------------------------
\* Properties of the codec, checked under CodecSpec.

\* C8: decoding what encodeMessage produced succeeds and gives back the
\* message type, target, sequence number, resRequired, ackRequired and
\* payload that were encoded.
C8_RoundTrip ==
    cpc = "decoded" /\ ~damaged =>
        /\ dec.err = "nil"
        /\ dec.hdr.typ = encIn.hdr.typ
        /\ dec.hdr.target = encIn.hdr.target
        /\ dec.hdr.sequence = encIn.hdr.sequence
        /\ dec.hdr.resRequired = encIn.hdr.resRequired
        /\ dec.hdr.ackRequired = encIn.hdr.ackRequired
        /\ dec.payload = encIn.payload

\* C9: decodeMessage fails exactly on a buffer shorter than 36 bytes or whose
\* bytes 0-1, read as a little-endian u16, differ from its length; on every
\* other buffer it returns the bytes from offset 36 on as the payload.
C9_DecodeFailsExactly ==
    cpc = "decoded" =>
        LET bad == Len(buf) < 36 \/ buf[1] + 256 * buf[2] # Len(buf)
        IN  /\ (dec.err # "nil") <=> bad
            /\ (~bad => dec.payload = [i \in 1..(Len(buf) - 36) |-> buf[i + 36]])

\* A buffer whose protocol byte was overwritten decodes.
C9_Witness ==
    /\ cpc = "decoded"
    /\ damaged
    /\ Len(buf) = 38
    /\ buf[3] = 255
    /\ dec.err = "nil"
    /\ dec.payload = <<buf[37], buf[38]>>

\* C10: what encodeMessage returns is 36 + len(payload) bytes long and its
\* bytes 0-1, read as a little-endian u16, are that length.
C10_SizeField ==
    cpc = "encoded" /\ ~damaged =>
        /\ Len(buf) = 36 + Len(encIn.payload)
        /\ buf[1] + 256 * buf[2] = Len(buf)

----------------------------------------------------------------------------
\* Properties of a session, checked under SessionSpec.

\* C11: a query's request has response-required set and
\* acknowledgement-required clear, and the exchange succeeds only on a reply
\* of the state type the caller named; a command's request has
\* acknowledgement-required set and response-required clear, the exchange
\* succeeds only on a reply of type 45 whatever the command's type, and set
\* hands back no payload.
C11_QueryAndSet ==
    pc # "idle" =>
        /\ req.api \in {"query", "set"}
        /\ (req.api = "query" =>
              /\ msg[23] = 1
              /\ \A m \in sent : m[23] = 1
              /\ returned(req, result) = result
              /\ (pc = "done" /\ result.err = "nil" =>
                    FirstRcvd[33] + 256 * FirstRcvd[34] = req.respType))
        /\ (req.api = "set" =>
              /\ msg[23] = 2
              /\ \A m \in sent : m[23] = 2
              /\ returned(req, result).payload = <<>>
              /\ returned(req, result).err = result.err
              /\ (pc = "done" /\ result.err = "nil" =>
                    FirstRcvd[33] + 256 * FirstRcvd[34] = 45))
        /\ (pc = "done" /\ Len(rcvd) = 1 /\ RcvdWellFormed
              /\ FirstRcvd[33] + 256 * FirstRcvd[34]
                    # (IF req.api = "set" THEN 45 ELSE req.respType) =>
              result.err \in {"source", "type"})

\* SetColor is acknowledged by a message of type 45 that carries bytes, and
\* set hands none of them back.
C11_Witness ==
    /\ pc = "done"
    /\ req.api = "set"
    /\ req.reqType = 102
    /\ msg[23] = 2
    /\ result.err = "nil"
    /\ result.payload # <<>>
    /\ returned(req, result) = [payload |-> <<>>, err |-> "nil"]

\* C18: an exchange that began after the Client's Close does not end in
\* success.
C18_NoSuccessAfterClose ==
    pc = "done" /\ startedClosed => result.err # "nil"

----------------------------------------------------------------------------
\* Properties of Discover, checked under DiscoverSpec.

\* What the bytes of the datagram read last say.
LastB == lastFrom.b

LastPort == LastB[38] + 256 * LastB[39] + 65536 * LastB[40] + 16777216 * LastB[41]

\* C12: no two Devices that Discover returns have the same serial.
C12_OneDevicePerSerial ==
    dpc = "done" =>
        \A i, j \in 1..Len(dRet.devs) :
            i # j => dRet.devs[i].Serial # dRet.devs[j].Serial

\* C13: a datagram makes Discover append a Device only if the source in its
\* header is the source of the probe.
C13_OnlyOwnSource ==
    added =>
        LastB[5] + 256 * LastB[6] + 65536 * LastB[7] + 16777216 * LastB[8]
            = probe[5] + 256 * probe[6] + 65536 * probe[7] + 16777216 * probe[8]

\* C14: once the context is cancelled or past its deadline, Discover has
\* stopped: when it returns after its context is done, it returns at the
\* instant the context was done, with the devices it collected and no error.
C14_StopsWhenContextDone ==
    dpc = "done" /\ ctxErr # "nil" /\ dErr = "timeout" =>
        /\ now = ctxDoneAt
        /\ dRet = [devs |-> devs, err |-> "nil"]

\* C15: when ReadFrom fails and the failure is no timeout, Discover returns
\* an error and no devices, whatever it had collected.
C15_ReadFailureReturnsNoDevices ==
    dpc = "done" /\ dErr = "read" =>
        /\ dRet.err \notin {"nil", "none"}
        /\ dRet.devs = <<>>

\* Two devices had been collected when the read failed.
C15_Witness ==
    /\ dpc = "done"
    /\ dErr = "read"
    /\ Len(devs) = 2
    /\ dRet.devs = <<>>

\* C16: a datagram makes Discover append a Device only if it is at least 36
\* bytes long with its length in bytes 0-1, its type is 3, its payload is 5
\* bytes, payload byte 0 is 1 and the u32 of payload bytes 1-4 is at most
\* 0xffff; the Device appended has the first 6 bytes of the target as serial,
\* the sender's IP as IP and the payload's port as port.
C16_StateServiceOnly ==
    added =>
        /\ Len(LastB) >= 36
        /\ LastB[1] + 256 * LastB[2] = Len(LastB)
        /\ LastB[33] + 256 * LastB[34] = 3
        /\ Len(LastB) - 36 = 5
        /\ LastB[37] = 1
        /\ LastPort <= 65535
        /\ Len(devs) >= 1
        /\ devs[Len(devs)].Serial = [i \in 1..6 |-> LastB[8 + i]]
        /\ devs[Len(devs)].Addr = [IP |-> lastFrom.raddr.IP, Port |-> LastPort]

\* A device that answered from port 40000 is recorded with port 56700.
C16_Witness ==
    /\ added
    /\ lastFrom.raddr.Port = 40000
    /\ devs[Len(devs)].Addr = [IP |-> <<192, 168, 1, 11>>, Port |-> 56700]
    /\ devs[Len(devs)].Serial = <<208, 115, 213, 4, 5, 6>>

----------------------------------------------------------------------------
\* Properties of the handles, checked under HandlesSpec.

\* C19: when the two callers work on different handles, each handle is as
\* if it were alone, however the callers' steps interleave: its serial and
\* address stay what they were, its n-th exchange takes sequence number
\* n - 1 and encodes it in the request, and its counter is the number of
\* exchanges that advanced it.
C19_HandlesIndependent ==
    callers[1].h # callers[2].h =>
        \A c \in Callers :
            LET k == callers[c]
                d == hDev[k.h]
            IN  /\ d.Serial = Devices0[k.h].Serial
                /\ d.Addr = Devices0[k.h].Addr
                /\ (k.pc # "idle" => k.idx = hCalls[k.h] /\ k.seq = (k.idx - 1) % 256)
                /\ (k.pc = "encoded" => k.msg[24] = k.seq)
                /\ d.seq = (IF k.pc \in {"seqRead", "loaded"}
                            THEN hCalls[k.h] - 1 ELSE hCalls[k.h]) % 256

\* The first handle is in its third exchange, the second in its first.
C19_Witness ==
    /\ callers[1].h # callers[2].h
    /\ callers[1].pc = "encoded"
    /\ callers[2].pc = "encoded"
    /\ callers[1].idx = 3
    /\ callers[2].idx = 1
    /\ callers[1].msg[24] = 2
    /\ callers[2].msg[24] = 0

\* C20: exchanges that are serialized on a handle take sequence numbers of
\* which none comes again within 256 consecutive exchanges; exchanges that
\* are not may take a number again at once, since the counter is read and
\* written in separate steps: the counter then never runs ahead of the
\* exchanges begun, and no exchange takes a number beyond the one it would
\* take if serialized.
C20_SequenceAllocation ==
    \A c \in Callers :
        LET k == callers[c]
        IN  k.pc # "idle" =>
                /\ (locking => k.prev = 0 \/ k.idx - k.prev >= 256)
                /\ (~locking =>
                      /\ k.seq <= k.idx - 1
                      /\ hDev[k.h].seq <= hCalls[k.h])

\* Two callers on one handle, no lock: both requests carry sequence number 0
\* and the counter went from 0 to 1.
C20_Witness ==
    /\ ~locking
    /\ callers[1].h = callers[2].h
    /\ callers[1].pc = "encoded"
    /\ callers[2].pc = "encoded"
    /\ callers[1].msg[24] = callers[2].msg[24]
    /\ hCalls[callers[1].h] = 2
    /\ hDev[callers[1].h].seq = 1

----------------------------------------------------------------------------
\* Properties of DetermineProduct, checked under ProductsSpec.

\* The catalog's entries for the arguments of the call, looked up by ID.
ArgVendors == {i \in 1..Len(file) : file[i].VID = pArgs.vendorID}

ArgProducts ==
    {pr \in UNION {{file[i].Products[k] : k \in 1..Len(file[i].Products)} :
                     i \in ArgVendors} : pr.PID = pArgs.productID}

ArgVendor == file[CHOOSE i \in ArgVendors : TRUE]

ArgProduct == CHOOSE pr \in ArgProducts : TRUE

\* The layers that were merged, as the catalog gave them, in order: the
\* all-false baseline, the vendor's defaults, the product's features, and the
\* upgrades that were applied.
MergedLayers ==
    <<[HEV |-> <<FALSE>>, Color |-> <<FALSE>>, Matrix |-> <<FALSE>>,
       Multizone |-> <<FALSE>>, TemperatureRange |-> <<>>,
       ExtendedMultizone |-> <<FALSE>>],
      capsValue(heap0, ArgVendor.Defaults),
      capsValue(heap0, ArgProduct.Features)>>
    \o [j \in 1..Len(pRet.applied) |->
          capsValue(heap0, ArgProduct.Upgrades[pRet.applied[j]].Features)]

\* C21: with no vendor of the given ID in the catalog DetermineProduct fails
\* with the unknown-vendor error, with a vendor but no product of the given
\* ID among its products with the unknown-product error; both times it
\* returns Product{} and has merged nothing, so memory is as it was.
C21_UnknownVendorOrProduct ==
    ppc \in {"called", "changed", "again"} =>
        /\ (ArgVendors = {} =>
              /\ pRet.err = "unknown vendor"
              /\ pRet.product = zeroProduct
              /\ pRet.applied = <<>>
              /\ heap = heap0)
        /\ (ArgVendors # {} /\ ArgProducts = {} =>
              /\ pRet.err = "unknown product"
              /\ pRet.product = zeroProduct
              /\ pRet.applied = <<>>
              /\ heap = heap0)
        /\ (ArgProducts # {} => pRet.err = "nil")

\* Product 32 is asked of vendor 2, which does not make it; vendor 1 does.
C21_Witness ==
    /\ ppc = "called"
    /\ pArgs.vendorID = 2
    /\ pArgs.productID = 32
    /\ pRet.err = "unknown product"
    /\ pRet.product = zeroProduct

\* C22: every field of the Features DetermineProduct returns has the value
\* of the last of the merged layers that gives the field, the layers being
\* the baseline, the defaults, the product's features and the applied
\* upgrades in the catalog's order; a field no layer gives is unset.
C22_LastLayerWins ==
    ppc = "called" /\ pRet.err = "nil" =>
        /\ \A j, k \in 1..Len(pRet.applied) : j < k => pRet.applied[j] < pRet.applied[k]
        /\ \A f \in DOMAIN nilCaps :
              LET defs == {i \in 1..Len(MergedLayers) : MergedLayers[i][f] # <<>>}
                  last == CHOOSE i \in defs : \A j \in defs : j <= i
              IN  capsValue(heap, pRet.product.Features)[f]
                    = IF defs = {} THEN <<>> ELSE MergedLayers[last][f]

\* The product says Color, the first upgrade takes it back and gives a
\* range, and the second upgrade is not applied.
C22_Witness ==
    /\ ppc = "called"
    /\ pRet.err = "nil"
    /\ pRet.applied = <<1>>
    /\ capsValue(heap0, ArgProduct.Features).Color = <<TRUE>>
    /\ capsValue(heap0, ArgProduct.Features).TemperatureRange = <<2500, 9000>>
    /\ pFirst.Color = <<FALSE>>
    /\ pFirst.Multizone = <<TRUE>>
    /\ pFirst.TemperatureRange = <<2000, 8000>>

\* C23: an upgrade is applied exactly when the firmware's major is at least
\* the upgrade's and the firmware's minor is at least the upgrade's. For the
\* catalog's LIFX Z (defaults all false; color, multizone and 2500-9000;
\* extended multizone from 2.77; 1500-9000 from 2.80) firmware 2.78 gives
\* extended multizone with 2500-9000, and firmware 2.80 gives 1500-9000.
C23_UpgradeGate ==
    ppc = "called" /\ pRet.err = "nil" =>
        /\ \A i \in 1..Len(ArgProduct.Upgrades) :
              (\E j \in 1..Len(pRet.applied) : pRet.applied[j] = i)
                <=> (/\ pArgs.fw.Major >= ArgProduct.Upgrades[i].Major
                     /\ pArgs.fw.Minor >= ArgProduct.Upgrades[i].Minor)
        /\ ((/\ pArgs.productID = 32
             /\ capsValue(heap0, ArgVendor.Defaults)
                  = [HEV |-> <<FALSE>>, Color |-> <<FALSE>>, Matrix |-> <<FALSE>>,
                     Multizone |-> <<FALSE>>, TemperatureRange |-> <<>>,
                     ExtendedMultizone |-> <<FALSE>>]
             /\ capsValue(heap0, ArgProduct.Features).TemperatureRange = <<2500, 9000>>
             /\ capsValue(heap0, ArgProduct.Upgrades[1].Features).ExtendedMultizone = <<TRUE>>
             /\ capsValue(heap0, ArgProduct.Upgrades[2].Features).TemperatureRange = <<1500, 9000>>
             /\ pArgs.fw.Major = 2) =>
              /\ (pArgs.fw.Minor = 78 =>
                    pFirst = [HEV |-> <<FALSE>>, Color |-> <<TRUE>>, Matrix |-> <<FALSE>>,
                              Multizone |-> <<TRUE>>, TemperatureRange |-> <<2500, 9000>>,
                              ExtendedMultizone |-> <<TRUE>>])
              /\ (pArgs.fw.Minor = 80 => pFirst.TemperatureRange = <<1500, 9000>>))

\* Firmware 3.70 on the LIFX Z: neither the upgrade from 2.77 nor the one
\* from 2.80 is applied.
C23_Witness ==
    /\ ppc = "called"
    /\ pRet.err = "nil"
    /\ pArgs.productID = 32
    /\ pArgs.fw = [Major |-> 3, Minor |-> 70]
    /\ pRet.applied = <<>>
    /\ capsValue(heap0, ArgProduct.Upgrades[1].Features).ExtendedMultizone = <<TRUE>>
    /\ pFirst.ExtendedMultizone = <<FALSE>>

\* C24 as stated: every field of the Features DetermineProduct returns
\* without error is set, the five booleans and a range of two values.
C24_AllFieldsSet ==
    ppc = "called" /\ pRet.err = "nil" =>
        /\ \A f \in BoolFields : pFirst[f] \in {<<TRUE>>, <<FALSE>>}
        /\ Len(pFirst.TemperatureRange) = 2

\* C24 as amended: the five booleans are set; the range has two values when
\* one of the merged layers gives a range, and is nil when none does.
C24_BooleansSetRangeWhenGiven ==
    ppc = "called" /\ pRet.err = "nil" =>
        /\ \A f \in BoolFields :
              /\ pRet.product.Features[f] # 0
              /\ heap[pRet.product.Features[f]] \in BOOLEAN
        /\ IF \E i \in 1..Len(MergedLayers) : MergedLayers[i].TemperatureRange # <<>>
           THEN /\ pRet.product.Features.TemperatureRange # 0
                /\ Len(heap[pRet.product.Features.TemperatureRange]) = 2
           ELSE pRet.product.Features.TemperatureRange = 0

\* The LIFX Z of a catalog in which no layer gives a range.
C24_Witness ==
    /\ ppc = "called"
    /\ pRet.err = "nil"
    /\ pArgs.productID = 32
    /\ pRet.applied = <<1, 2>>
    /\ pRet.product.Features.TemperatureRange = 0
    /\ pFirst.Matrix = <<TRUE>>

\* C25: the catalog's memory is never written; the pointers and the slice
\* of the returned Features point outside the catalog; and a second call
\* with the same arguments returns what the first returned, also after the
\* caller has changed the Features of the first.
C25_Pure ==
    /\ Len(heap) >= Len(heap0)
    /\ \A a \in 1..Len(heap0) : heap[a] = heap0[a]
    /\ (ppc # "init" =>
          \A f \in DOMAIN nilCaps :
              pRet.product.Features[f] = 0 \/ pRet.product.Features[f] > Len(heap0))
    /\ (ppc = "again" =>
          /\ capsValue(heap, pRet.product.Features) = pFirst
          /\ pRet.product.PID = (IF pRet.err = "nil" THEN pArgs.productID ELSE 0))

\* The caller has overwritten the range it was given (both calls allocate
\* the same cells, so the first call's range lies as many cells before the
\* second's as one call allocates); the second call returns the range of the
\* first call.
C25_Witness ==
    /\ ppc = "again"
    /\ pRet.err = "nil"
    /\ pFirst.TemperatureRange = <<1500, 9000>>
    /\ LET allocated == (Len(heap) - Len(heap0)) \div 2
       IN  heap[pRet.product.Features.TemperatureRange - allocated] = <<0, 9000>>
    /\ capsValue(heap, pRet.product.Features).TemperatureRange = <<1500, 9000>>

\* C30: DetermineProduct ends by returning, never in a run-time panic.
C30_NoPanic ==
    ppc # "panicked" /\ ~pRet.panic

----------------------------------------------------------------------------
\* Properties of the payload builders and parsers, checked under ZonesSpec.

\* The duration given to the call made last: whether it is below zero, and
\* whether its whole milliseconds are more than 4294967295.
ArgNegative ==
    zCall.duration.neg
    /\ (zCall.duration.hi > 0 \/ zCall.duration.lo > 0 \/ zCall.duration.ns > 0)

ArgOverRange == ~zCall.duration.neg /\ zCall.duration.hi > 65535

C27_DurationEncoding ==
    (/\ zCall.n = 1
     /\ zCall.op \in {"SetExtendedColorZones", "SetLightPower", "SetWaveform"}
     /\ zRet.err # "too many zones") =>
        IF ArgNegative \/ ArgOverRange
        THEN /\ zRet.err = "duration out of range"
             /\ pc = "idle"
             /\ calls = 0
             /\ nSent = 0
        ELSE /\ zRet.err # "duration out of range"
             /\ pc # "idle"
             /\ LET at == IF zCall.op = "SetWaveform" THEN 11 ELSE 1
                IN  zCall.op # "SetLightPower" =>
                      /\ Uint16At(req.reqBody, at) = zCall.duration.lo
                      /\ Uint16At(req.reqBody, at + 2) = zCall.duration.hi

\* C28: GetExtendedColorZones returns zones exactly when the exchange gave a
\* payload of at least 5 bytes, with at least 8 bytes after them for each of
\* the colors its fifth byte counts, with first zone index 0 and with as
\* many zones as colors; the zones are then that many colors, the i-th read
\* from the i-th eight bytes after the prefix. Otherwise it returns an error
\* and no zones.
C28_WholeStripOnly ==
    (zCall.op = "GetExtendedColorZones" /\ zRet.err \notin {"none", "pending"}) =>
        LET p == result.payload
            whole == /\ result.err = "nil"
                     /\ Len(p) >= 5
                     /\ Len(p) - 5 >= 8 * p[5]
                     /\ p[3] = 0 /\ p[4] = 0
                     /\ p[1] + 256 * p[2] = p[5]
        IN  IF whole
            THEN /\ zRet.err = "nil"
                 /\ Len(zRet.zones) = p[5]
                 /\ \A i \in 1..p[5] :
                       zRet.zones[i] =
                         [Hue |-> p[8 * i - 2] + 256 * p[8 * i - 1],
                          Saturation |-> p[8 * i] + 256 * p[8 * i + 1],
                          Brightness |-> p[8 * i + 2] + 256 * p[8 * i + 3],
                          Kelvin |-> p[8 * i + 4] + 256 * p[8 * i + 5]]
            ELSE /\ zRet.err # "nil"
                 /\ zRet.zones = <<>>

\* Two zones were returned from a payload that holds a third color.
C28_Witness ==
    /\ zCall.op = "GetExtendedColorZones"
    /\ zRet.err = "nil"
    /\ zRet.zones = <<zoneColor(1), zoneColor(2)>>
    /\ Len(result.payload) = 5 + 3 * 8

\* C29: the payload of the request SetExtendedColorZones hands to oneRPC for
\* n zones is 8 + 8n bytes: the duration's whole milliseconds as a
\* little-endian uint32, 1, a zero uint16, n, and for each zone in turn its
\* hue, saturation, brightness and kelvin as little-endian uint16s; every
\* datagram sent carries these bytes after the 36 of the header.
C29_ZonesPayload ==
    (/\ zCall.op = "SetExtendedColorZones"
     /\ zRet.err \notin {"none", "too many zones", "duration out of range"}) =>
        LET b == req.reqBody
            n == Len(zCall.zones)
        IN  /\ n <= 82
            /\ req.reqType = 510
            /\ Len(b) = 8 + 8 * n
            /\ Uint16At(b, 1) = zCall.duration.lo
            /\ Uint16At(b, 3) = zCall.duration.hi
            /\ b[5] = 1
            /\ b[6] = 0 /\ b[7] = 0
            /\ b[8] = n
            /\ \A i \in 1..n :
                  /\ Uint16At(b, 8 * i + 1) = zCall.zones[i].Hue
                  /\ Uint16At(b, 8 * i + 3) = zCall.zones[i].Saturation
                  /\ Uint16At(b, 8 * i + 5) = zCall.zones[i].Brightness
                  /\ Uint16At(b, 8 * i + 7) = zCall.zones[i].Kelvin
            /\ \A m \in sent : Len(m) = 36 + Len(b) /\ SubSeq(m, 37, Len(m)) = b

\* 82 zones and 1.5ms have been sent: 664 bytes that begin with 1, 0, 0, 0.
C29_Witness ==
    /\ zCall.op = "SetExtendedColorZones"
    /\ Len(zCall.zones) = 82
    /\ nSent >= 1
    /\ Len(req.reqBody) = 664
    /\ SubSeq(req.reqBody, 1, 8) = <<1, 0, 0, 0, 1, 0, 0, 82>>

----------------------------------------------------------------------------
\* The layout of the encoded header, checked under CodecSpec.

\* Bit k of the byte v.
BitOf(v, k) == (v \div (2 ^ k)) % 2

\* C31: the 36 bytes encodeMessage puts before the payload, counted from 0:
\* byte 2 is 0 and the low nibble of byte 3 is 4; bit 4 of byte 3 is set, bit
\* 5 is the header's tagged, bits 6 and 7 are clear; bytes 4-7 are the source,
\* low byte first; bytes 8-15 the target; bytes 16-21 zero; byte 22 is
\* resRequired in bit 0 and ackRequired in bit 1, nothing else; byte 23 the
\* sequence; bytes 24-31 zero; bytes 32-33 the type, low byte first; bytes
\* 34-35 zero; and the payload follows.
C31_HeaderLayout ==
    (cpc # "init" /\ ~damaged) =>
        LET h == encIn.hdr
        IN  /\ Len(buf) = 36 + Len(encIn.payload)
            /\ buf[3] = 0
            /\ buf[4] % 16 = 4
            /\ BitOf(buf[4], 4) = 1
            /\ BitOf(buf[4], 5) = (IF h.tagged THEN 1 ELSE 0)
            /\ buf[4] \div 64 = 0
            /\ buf[5] + 256 * buf[6] + 65536 * buf[7] + 16777216 * buf[8] = h.source
            /\ \A i \in 1..8 : buf[8 + i] = h.target[i]
            /\ \A i \in 17..22 : buf[i] = 0
            /\ BitOf(buf[23], 0) = (IF h.resRequired THEN 1 ELSE 0)
            /\ BitOf(buf[23], 1) = (IF h.ackRequired THEN 1 ELSE 0)
            /\ buf[23] \div 4 = 0
            /\ buf[24] = h.sequence
            /\ \A i \in 25..32 : buf[i] = 0
            /\ buf[33] + 256 * buf[34] = h.typ
            /\ buf[35] = 0 /\ buf[36] = 0
            /\ SubSeq(buf, 37, Len(buf)) = encIn.payload

\* A tagged message that asks for an acknowledgement and no response: byte 3
\* is 0x34 and byte 22 is 2.
C31_Witness ==
    /\ cpc = "encoded"
    /\ ~damaged
    /\ encIn.hdr.tagged
    /\ encIn.hdr.ackRequired /\ ~encIn.hdr.resRequired
    /\ encIn.hdr.typ = 65535
    /\ buf[4] = 52
    /\ buf[23] = 2
    /\ buf[33] = 255 /\ buf[34] = 255

----------------------------------------------------------------------------
\* Properties of CaptureState and RestoreState, checked under StateSpec.

\* The colors the payload b of a SetExtendedColorZones carries.
CarriedZones(b) ==
    [i \in 1..b[8] |->
        [Hue |-> Uint16At(b, 8 * i + 1), Saturation |-> Uint16At(b, 8 * i + 3),
         Brightness |-> Uint16At(b, 8 * i + 5), Kelvin |-> Uint16At(b, 8 * i + 7)]]

\* C32: when RestoreState has returned, having been given the State that
\* CaptureState returned, its first exchange was a SetExtendedColorZones
\* that carries the State's zones; if that was acknowledged, its second
\* was a SetLightPower that carries the State's level; and if that was
\* acknowledged too, RestoreState returned no error.
C32_RestoreCaptured ==
    spc \in {"restored", "restoreFailed"} =>
        /\ Len(restoreLog) >= 1
        /\ restoreLog[1].req.reqType = 510
        /\ Len(restoreLog[1].req.reqBody) = 8 + 8 * Len(state.zones)
        /\ CarriedZones(restoreLog[1].req.reqBody) = state.zones
        /\ (restoreLog[1].err = "nil" =>
              /\ Len(restoreLog) = 2
              /\ restoreLog[2].req.reqType = 117
              /\ Uint16At(restoreLog[2].req.reqBody, 1) = state.power
              /\ (restoreLog[2].err = "nil" => sErr = "nil"))

----------------------------------------------------------------------------
\* The datagrams Discover passes over, checked under DiscoverSpec.

\* The datagram b does not decode, or is no message of type 3, or has a
\* payload that is not 5 bytes, a service byte that is not 1, or a port
\* above 0xffff.
Skipped(b) ==
    \/ Len(b) < 36
    \/ b[1] + 256 * b[2] # Len(b)
    \/ b[33] + 256 * b[34] # 3
    \/ Len(b) # 36 + 5
    \/ b[37] # 1
    \/ b[40] # 0
    \/ b[41] # 0

\* C33: a turn of Discover's loop on such a datagram leaves the collected
\* Devices as they are, leaves Discover in its loop and makes it return
\* nothing; the Devices collected stay collected in every later turn; and
\* when the loop ends at the read deadline Discover returns them all, with
\* no error.
C33_SkippedDatagrams ==
    [][/\ (dpc = "receiving" /\ lastFrom' # lastFrom /\ Skipped(lastFrom'.b)) =>
            /\ devs' = devs
            /\ ~added'
            /\ dpc' = "receiving"
            /\ dErr' = dErr
            /\ dRet' = dRet
       /\ (dpc = "receiving" =>
            /\ Len(devs') >= Len(devs)
            /\ SubSeq(devs', 1, Len(devs)) = devs)
       /\ (dpc = "receiving" /\ dpc' = "done" /\ dErr' = "timeout" =>
            dRet' = [devs |-> devs, err |-> "nil"])]_vars

\* Two Devices had been collected, the datagram read last named service 5
\* and was passed over, and Discover returned the two.
C33_Witness ==
    /\ dpc = "done"
    /\ dRet.err = "nil"
    /\ Len(dRet.devs) = 2
    /\ ~added
    /\ Len(lastFrom.b) = 41
    /\ lastFrom.b[33] = 3
    /\ lastFrom.b[37] = 5

----------------------------------------------------------------------------
\* The payload of SetLightPower, checked under ZonesSpec.

\* C35: the payload of the request SetLightPower hands to oneRPC is 6
\* bytes: the level as a little-endian uint16, then the duration's whole
\* milliseconds as a little-endian uint32.
C35_LightPowerPayload ==
    (/\ zCall.op = "SetLightPower"
     /\ zRet.err \notin {"none", "duration out of range"}) =>
        /\ req.reqType = 117
        /\ Len(req.reqBody) = 6
        /\ req.reqBody[1] + 256 * req.reqBody[2] = zCall.level
        /\ req.reqBody[3] + 256 * req.reqBody[4] = zCall.duration.lo
        /\ req.reqBody[5] + 256 * req.reqBody[6] = zCall.duration.hi

\* C36: every exchange runs at least one attempt, also when the caller's
\* context is done already at the call: the sequence number is consumed on
\* entry, no exchange returns before an attempt was started, the context's
\* error is returned only after an attempt that wrote the request and then
\* timed out, and an exchange entered with a done context ends with its
\* first attempt, returning the context's error when that attempt timed out
\* after writing the request exactly once.
C36_AtLeastOneAttempt ==
    /\ pc # "idle" => dSeq = nextSeq(seq)
    /\ pc = "done" => attempts >= 1
    /\ (pc = "done" /\ result.err \in {"Canceled", "DeadlineExceeded"}) =>
           /\ lastErr = "timeout"
           /\ nSent >= 1
    /\ (pc = "done" /\ entryErr # "nil") =>
           /\ attempts = 1
           /\ lastErr = "timeout" => (result.err = entryErr /\ nSent = 1)

\* An exchange entered after its deadline had elapsed has written its request
\* once and returned DeadlineExceeded.
C36_Witness ==
    /\ pc = "done"
    /\ entryErr = "DeadlineExceeded"
    /\ result.err = "DeadlineExceeded"
    /\ attempts = 1
    /\ nSent = 1
    /\ dSeq = nextSeq(seq)

\* C37: while the caller's context has no deadline and is not cancelled, and
\* no datagram was read and no socket operation failed other than by timing
\* out, the exchange has not returned, whatever the number of attempts made:
\* every attempt started has written the request, and from the tenth
\* attempt on the timeout is 10s.
C37_RetriesWithoutBound ==
    (/\ pc # "idle"
     /\ ctxDeadline = NoDeadline
     /\ ctxErr = "nil"
     /\ rcvd = <<>>
     /\ lastErr \in {"nil", "timeout"}) =>
        /\ pc \in {"attempt", "waiting"}
        /\ nSent = attempts
        /\ (attempts >= 10 => timeout = maxTimeout)
        /\ (attempts >= 1 => lastErr = "timeout" \/ (attempts = 1 /\ pc = "waiting"))

\* An exchange nobody answers is in its eleventh attempt, the second one
\* with a timeout of 10s, more than 30 seconds after it began.
C37_Witness ==
    /\ pc = "waiting"
    /\ ctxDeadline = NoDeadline
    /\ ctxErr = "nil"
    /\ rcvd = <<>>
    /\ attempts > 10
    /\ nSent = attempts
    /\ prevTimeout = maxTimeout
    /\ timeout = maxTimeout
    /\ now > 30 * Second

\* The sockets that are open: while an attempt blocks in ReadFrom, the one
\* socket that attempt opened, and none between attempts and after the
\* exchange returned; while Discover is in its loop, one socket, and none
\* after it returned.
SocketsOpen ==
    /\ pc = "waiting" => conns = {newConn(ports.cur, attempts)}
    /\ pc # "waiting" => conns = {}
    /\ dpc = "receiving" => Cardinality(dConns) = 1
    /\ dpc # "receiving" => dConns = {}

\* C34 as stated: every attempt of an exchange opens its own socket and
\* closes it before the attempt ends, Discover keeps one socket for its
\* window and closes it on every return path, at most one socket per call
\* is open and none after the call returned, and the answer to an attempt
\* that arrives after that attempt timed out is never read by a later
\* attempt.
C34_LateReplyNeverRead ==
    /\ SocketsOpen
    /\ lateRead = noLateRead

\* C34, amended: the sockets are opened and closed as stated, Discover's
\* socket stays the same one from turn to turn of its loop, and the answer
\* to an attempt that arrives after that attempt timed out is read by a
\* later attempt only when the socket of the later attempt was given the
\* local port the socket of the earlier one had.
C34_SocketLifecycle ==
    /\ [](/\ SocketsOpen
          /\ lateRead # noLateRead =>
                /\ lateRead.by = lateRead.of + 1
                /\ ports.cur = ports.prev)
    /\ [][dpc = "receiving" /\ dpc' = "receiving" => dConns' = dConns]_vars

\* The second attempt got the port of the first, read the answer to the
\* first, and the exchange returned with no socket left open.
C34_Witness ==
    /\ pc = "done"
    /\ attempts = 2
    /\ lateRead = [of |-> 1, by |-> 2]
    /\ ports.prev = ports.cur
    /\ conns = {}
    /\ result.err = "nil"

====
